---- MODULE Spec2Model ----
(***************************************************************************)
(* Model of crunchy-cli-core/src/utils/download.rs.                        *)
(*                                                                         *)
(* Downloader::download_segments: `cpus` worker lanes (tokio tasks of a    *)
(* JoinSet, multi-threaded runtime) fetch and decrypt the segments of one  *)
(* stream and send (index, bytes) over an unbounded channel; the calling   *)
(* task receives them, reorders them through a BTreeMap and writes them to *)
(* the sink.  A lane step is one stretch of lane code that touches shared  *)
(* state once (channel, mutex, join set), so every interleaving of the     *)
(* lanes with each other and with the consumer is explored.                *)
(*                                                                         *)
(* Not modelled: the progress bar (lines 816-832, 929-937) and the debug   *)
(* log records; neither feeds back into the data path.                     *)
(***************************************************************************)
EXTENDS Integers, Sequences, FiniteSets, TLC

\* ------------------------------------------------------------------ bounds
\* Largest number of segments of the stream (segments.len()).
MaxSegs == 3
\* Largest number of worker lanes (self.download_threads).
MaxLanes == 2

\* ------------------------------------------------------- program constants
\* `if retry_count == 5 { bail!(...) }`
MaxRetries == 5

VARIABLES
    total_segments, \* segments.len()
    cpus,           \* self.download_threads
    rate_limited,   \* self.rate_limiter.is_some()
    segs,           \* segs[num]: the segments handed to lane num (thread_segments)
    lpc,            \* position of each lane in its task body
    li,             \* the lane's loop index i of `thread_segments.into_iter().enumerate()`
    lres,           \* the lane's `result` / the task's output
    count,          \* the shared counter behind the mutex
    count_lock,     \* the lane holding the mutex guard, -1 when free
    chan,           \* messages in flight in the unbounded channel: <<pos, segment carried>>
    finished,       \* lanes in the order their tasks completed (the join set's notified queue)
    joined,         \* how many completed tasks join_next has already yielded
    cpc,            \* position of the consumer (the body of download_segments)
    data_pos,       \* the cursor
    buf,            \* the BTreeMap: pos -> segment whose bytes are held
    sink,           \* the bytes written to `writer`
    result,         \* what download_segments returned
    \* history variables, read by the properties only
    fail_att,       \* fetch attempts made for the segment the lane failed on (0: not failed)
    reordered,      \* some arrival was not the next segment and went into the buffer
    decrypt_failed, \* the lane saw VariantSegment::decrypt fail
    marked,         \* lanes whose failure marker entered the channel, in sending order
    marker_seen,    \* the consumer has received a failure marker
    \* the other functions of the file, each with its arguments and locals
    fs,             \* Downloader::check_free_space
    dl,             \* Downloader::download
    sub,            \* fix_subtitles
    ch,             \* write_ffmpeg_chapters
    mux,            \* the ffmpeg command line built by Downloader::download
    pg,             \* ffmpeg_progress and the lines of Downloader::download around it
    font,           \* Downloader::download_font and the font cache directory
    exe,            \* execute_executor
    intr            \* the ctrl-c handler of cli_entrypoint and the temp directory

\* The state of download_segments.
segVars == <<total_segments, cpus, rate_limited, segs, lpc, li, lres, count,
             count_lock, chan, finished, joined, cpc, data_pos, buf, sink, result,
             fail_att, reordered, decrypt_failed, marked, marker_seen>>

vars == <<segVars, fs, dl, sub, ch, mux, pg, font, exe, intr>>

\* What a step of one function leaves alone: the state of the others.
notSeg == <<fs, dl, sub, ch, mux, pg, font, exe, intr>>
notFs == <<segVars, dl, sub, ch, mux, pg, font, exe, intr>>
notDl == <<segVars, fs, sub, ch, mux, pg, font, exe, intr>>
notSub == <<segVars, fs, dl, ch, mux, pg, font, exe, intr>>
notCh == <<segVars, fs, dl, sub, mux, pg, font, exe, intr>>
notMux == <<segVars, fs, dl, sub, ch, pg, font, exe, intr>>
notPg == <<segVars, fs, dl, sub, ch, mux, font, exe, intr>>
notFont == <<segVars, fs, dl, sub, ch, mux, pg, exe, intr>>
notExe == <<segVars, fs, dl, sub, ch, mux, pg, font, intr>>
notIntr == <<segVars, fs, dl, sub, ch, mux, pg, font, exe>>

\* A function that is not being run has no locals.
NotRun == [pc |-> "none"]

Lanes == 0 .. (cpus - 1)

\* ------------------------------------------------------------------ values
NoResult == [kind |-> "None", seg |-> -1]
OkResult == [kind |-> "Ok", seg |-> -1]
Err(k, s) == [kind |-> k, seg |-> s]

\* The decrypted bytes of segment s; every byte is tagged with its segment, and
\* lengths differ between segments.  Segment -1 is the marker's `vec![]`.
Payload(s) == IF s < 0 THEN << >> ELSE [j \in 1 .. (1 + (s % 2)) |-> s]

RECURSIVE Concat(_)
\* The concatenation of the payloads of a sequence of segments.
Concat(ss) == IF ss = << >> THEN << >> ELSE Payload(Head(ss)) \o Concat(Tail(ss))

\* <<0, 1, ..., n-1>>
UpTo(n) == [j \in 1 .. n |-> j - 1]

EmptyBuf == [p \in {} |-> -1]

\* --------------------------------------------------------- lane partition
\* `segs[i - ((i / cpus) * cpus)].push(segment)`: the lane of segment i.
LaneOfReversed(i, c) == (c - 1) - (i - ((i \div c) * c))

LaneOf(i, c) == i - ((i \div c) * c)

RECURSIVE Partition(_, _, _)
\* The loop of lines 839-841 from segment i on: segment i is pushed to the back
\* of its lane's vector.
Partition(i, n, c) ==
    IF i >= n THEN [num \in 0 .. (c - 1) |-> << >>]
    ELSE LET rest == Partition(i + 1, n, c)
         IN  [rest EXCEPT ![LaneOf(i, c)] = <<i>> \o @]

SegIndexNoStride(num, i, c) == num + i

\* `num as i32 + (i * cpus) as i32`: the index a lane labels its i-th segment with.
SegIndex(num, i, c) == num + (i * c)

\* ------------------------------------------------------------- retry loop
RetryExhaustedEarly(rc) == rc = MaxRetries - 1

RetryExhaustedLate(rc) == rc = MaxRetries + 1

\* `if retry_count == 5`
RetryExhausted(rc) == rc = MaxRetries

AttemptResultRetryDecrypt(fetched, decrypted, rc) ==
    IF fetched /\ decrypted THEN "deliver"
    ELSE IF RetryExhausted(rc) THEN "bail"
    ELSE "retry"

\* What one pass through the body of the retry loop and the decrypt that
\* follows it leads to: `break b.to_vec()` then decrypt, `bail!`, or another pass.
AttemptResult(fetched, decrypted, rc) ==
    IF fetched THEN (IF decrypted THEN "deliver" ELSE "decrypt_error")
    ELSE IF RetryExhausted(rc) THEN "bail"
    ELSE "retry"

RECURSIVE RetryLoop(_, _, _, _)
\* The retry loop of lines 860-885 followed by the decrypt of line 887, entered
\* with `retry_count` and `att` attempts already made, when the next `fails`
\* requests fail (request error or body-read error) and `decrypted` says whether
\* decrypt accepts the body once it has arrived.  The loop reads and writes
\* nothing but the lane's own locals.  `r` is how it ends, `att` the number of
\* requests made, `fetched` whether the last request brought a body.
RetryLoop(retry_count, att, fails, decrypted) ==
    LET r == AttemptResult(fails = 0, decrypted, retry_count)
    IN  IF r = "retry"
        THEN RetryLoop(retry_count + 1, att + 1, IF fails = 0 THEN 0 ELSE fails - 1, decrypted)
        ELSE [r |-> r, retry_count |-> retry_count, att |-> att + 1, fetched |-> (fails = 0)]

\* The runs of failing requests a segment is tried with: none, one, as many as
\* there are retries (the last retry succeeds), one more (every attempt fails),
\* and more than the loop can ever make.
FailRuns == {0, 1, MaxRetries, MaxRetries + 1, MaxRetries + 2}

\* ---------------------------------------------------------------- consumer
IsFailureMarkerOffByOne(pos) == pos < -1

\* `if pos < 0 { break; }`
IsFailureMarker(pos) == pos < 0

IsNextAlways(dp, pos) == TRUE

\* `if data_pos == pos`
IsNext(dp, pos) == dp = pos

\* How many entries `while let Some(b) = buf.remove(&data_pos)` removes from b
\* when the cursor starts at dp.
DrainLen(dp, b) ==
    CHOOSE n \in 0 .. Cardinality(DOMAIN b) :
        /\ \A j \in 0 .. (n - 1) : (dp + j) \in DOMAIN b
        /\ (dp + n) \notin DOMAIN b

JoinIsErrNever(r) == FALSE

\* `joined??`: the task's output is an error.
JoinIsErr(r) == r.kind # "Ok"

JoinPickLast(q) == q[Len(q)]

\* join_next yields completed tasks in the order they completed.
JoinPick(q) == q[1]

Returned == cpc = "done"

AllLanesGoneSenderKept == FALSE

\* Every sender is dropped: the original by `drop(sender)` (line 916), each
\* lane's clones when its task has ended.
AllLanesGone == \A l \in Lanes : lpc[l] \in {"done", "cancelled"}

\* -------------------------------------------------------------------- Init
Init ==
    /\ total_segments \in 0 .. MaxSegs
    /\ cpus \in 1 .. MaxLanes
    /\ rate_limited \in BOOLEAN
    /\ segs = Partition(0, total_segments, cpus)
    /\ lpc = [l \in Lanes |-> IF Len(segs[l]) = 0 THEN "exit" ELSE "fetch"]
    /\ li = [l \in Lanes |-> 0]
    /\ lres = [l \in Lanes |-> IF Len(segs[l]) = 0 THEN OkResult ELSE NoResult]
    /\ count = 0
    /\ count_lock = -1
    /\ chan = << >>
    /\ finished = << >>
    /\ joined = 0
    /\ cpc = "recv"
    /\ data_pos = 0
    /\ buf = EmptyBuf
    /\ sink = << >>
    /\ result = NoResult
    /\ fail_att = [l \in Lanes |-> 0]
    /\ reordered = FALSE
    /\ decrypt_failed = [l \in Lanes |-> FALSE]
    /\ marked = << >>
    /\ marker_seen = FALSE
    /\ fs = NotRun
    /\ dl = NotRun
    /\ sub = NotRun
    /\ ch = NotRun
    /\ mux = NotRun
    /\ pg = NotRun
    /\ font = NotRun /\ exe = NotRun /\ intr = NotRun

\* ------------------------------------------------------------ worker lanes
CurSeg(l) == segs[l][li[l] + 1]

CurIndex(l) == SegIndex(l, li[l], cpus)

\* The lane's task is still polled: download_segments has not returned.  (Its
\* return drops the join set, which aborts the tasks; see Cancel.)
Running(l) == ~Returned

\* The lane's download closure ends with error e: `result` is the error and the
\* task goes on to `if result.is_err()`.
LaneFails(l, e) ==
    /\ lres' = [lres EXCEPT ![l] = e]
    /\ lpc' = [lpc EXCEPT ![l] = "report"]

\* The lane's work on its current segment up to the lock: `let mut retry_count
\* = 0`, the retry loop and the decrypt.  `built` is whether request.build()
\* succeeds for the segment's url (only the rate-limited path builds the request
\* itself; its error leaves through `?` before any request is made), `fails` how
\* many requests in a row fail from now on, `decrypted` whether decrypt succeeds.
Fetch(l) ==
    /\ Running(l)
    /\ lpc[l] = "fetch"
    /\ \E built \in (IF rate_limited THEN BOOLEAN ELSE {TRUE}),
          fails \in FailRuns, decrypted \in BOOLEAN :
        IF ~built
        THEN /\ LaneFails(l, Err("Build", CurIndex(l)))
             /\ UNCHANGED <<fail_att, decrypt_failed>>
        ELSE LET out == RetryLoop(0, 0, fails, decrypted)
             IN  /\ decrypt_failed' = [decrypt_failed EXCEPT ![l] = out.fetched /\ ~decrypted]
                 /\ CASE out.r = "deliver" ->
                           /\ lpc' = [lpc EXCEPT ![l] = "lock"]
                           /\ UNCHANGED <<lres, fail_att>>
                      [] out.r = "decrypt_error" ->
                           /\ LaneFails(l, Err("Decrypt", CurIndex(l)))
                           /\ fail_att' = [fail_att EXCEPT ![l] = out.att]
                      [] OTHER ->
                           /\ LaneFails(l, Err("MaxRetry", CurIndex(l)))
                           /\ fail_att' = [fail_att EXCEPT ![l] = out.att]
    /\ UNCHANGED <<total_segments, cpus, rate_limited, segs, li, count, count_lock,
                   chan, finished, joined, cpc, data_pos, buf, sink, result,
                   reordered, marked, marker_seen>>
    /\ UNCHANGED notSeg

\* `let mut c = thread_count.lock().await`
Lock(l) ==
    /\ Running(l)
    /\ lpc[l] = "lock"
    /\ count_lock = -1
    /\ count_lock' = l
    /\ lpc' = [lpc EXCEPT ![l] = "send"]
    /\ UNCHANGED <<total_segments, cpus, rate_limited, segs, li, lres,
                   count, chan, finished, joined, cpc, data_pos, buf, sink, result,
                   fail_att, reordered, decrypt_failed, marked, marker_seen>>
    /\ UNCHANGED notSeg

\* `thread_sender.send((num + i * cpus, buf))?; *c += 1;` and the end of the loop
\* body, which drops the guard and moves to the next segment or leaves the loop
\* with Ok(()).  The send cannot fail while the receiver exists.
Send(l) ==
    /\ Running(l)
    /\ lpc[l] = "send"
    /\ chan' = Append(chan, <<CurIndex(l), CurSeg(l)>>)
    /\ count' = count + 1
    /\ count_lock' = -1
    /\ li' = [li EXCEPT ![l] = @ + 1]
    /\ IF li[l] + 1 < Len(segs[l])
       THEN /\ lpc' = [lpc EXCEPT ![l] = "fetch"]
            /\ UNCHANGED lres
       ELSE /\ lpc' = [lpc EXCEPT ![l] = "exit"]
            /\ lres' = [lres EXCEPT ![l] = OkResult]
    /\ UNCHANGED <<total_segments, cpus, rate_limited, segs, finished, joined, cpc,
                   data_pos, buf, sink, result, fail_att, reordered, decrypt_failed,
                   marked, marker_seen>>
    /\ UNCHANGED notSeg

\* `if result.is_err() { after_download_sender.send((-1, vec![]))?; }`
Report(l) ==
    /\ Running(l)
    /\ lpc[l] = "report"
    /\ lpc' = [lpc EXCEPT ![l] = "exit"]
    /\ chan' = Append(chan, <<-1, -1>>)
    /\ marked' = Append(marked, l)
    /\ UNCHANGED <<total_segments, cpus, rate_limited, segs, li, lres, count,
                   count_lock, finished, joined, cpc, data_pos, buf, sink, result,
                   fail_att, reordered, decrypt_failed, marker_seen>>
    /\ UNCHANGED notSeg

\* The task returns `result`: its senders are dropped and the join set is notified.
Exit(l) ==
    /\ Running(l)
    /\ lpc[l] = "exit"
    /\ lpc' = [lpc EXCEPT ![l] = "done"]
    /\ finished' = Append(finished, l)
    /\ UNCHANGED <<total_segments, cpus, rate_limited, segs, li, lres, count,
                   count_lock, chan, joined, cpc, data_pos, buf, sink, result,
                   fail_att, reordered, decrypt_failed, marked, marker_seen>>
    /\ UNCHANGED notSeg

\* download_segments has returned while the lane's task was not complete:
\* dropping the JoinSet aborted it, and the task ends without being waited for
\* (at its next await point; what it runs until then can reach neither the
\* dropped receiver nor the dropped join set).  A guard it holds is released.
Cancel(l) ==
    /\ Returned
    /\ lpc[l] \notin {"done", "cancelled"}
    /\ lpc' = [lpc EXCEPT ![l] = "cancelled"]
    /\ count_lock' = IF count_lock = l THEN -1 ELSE count_lock
    /\ UNCHANGED <<total_segments, cpus, rate_limited, segs, li, lres, count,
                   chan, finished, joined, cpc, data_pos, buf, sink, result,
                   fail_att, reordered, decrypt_failed, marked, marker_seen>>
    /\ UNCHANGED notSeg

\* ---------------------------------------------------------------- consumer
\* buf.insert(pos, bytes)
Insert(b, pos, seg) == [p \in (DOMAIN b) \cup {pos} |-> IF p = pos THEN seg ELSE b[p]]

\* b without the keys in ks
Without(b, ks) == [p \in (DOMAIN b) \ ks |-> b[p]]

\* The segments the drain loop takes out of b, in order, starting at cursor dp.
Drained(dp, b) == [j \in 1 .. DrainLen(dp, b) |-> b[dp + j - 1]]

\* The consumer performs the write_all calls for the segments ws, of which the
\* first `direct` (0 or 1) is the arrival itself and the others come out of b
\* at cursor dp (the cursor after the direct write), and all succeed.
WriteOk(ws, direct, dp, b) ==
    /\ sink' = sink \o Concat(ws)
    /\ data_pos' = dp + (Len(ws) - direct)
    /\ buf' = Without(b, dp .. (dp + (Len(ws) - direct) - 1))

\* download_segments returns r: its locals are dropped, among them the
\* receiver with what is still queued, the buffer and the join set.
Return(r) ==
    /\ result' = r
    /\ cpc' = "done"
    /\ chan' = << >>
    /\ buf' = EmptyBuf

\* The same calls when the (k+1)-th write_all fails after a proper prefix of its
\* bytes: `?` returns the error from download_segments.
WriteErr(ws, direct, dp, b) ==
    \E k \in 0 .. (Len(ws) - 1) :
      \E n \in 0 .. (Len(Payload(ws[k + 1])) - 1) :
        /\ sink' = sink \o Concat(SubSeq(ws, 1, k)) \o SubSeq(Payload(ws[k + 1]), 1, n)
        /\ data_pos' = IF k < direct THEN dp - direct ELSE dp + (k - direct)
        /\ Return(Err("Io", -1))

\* One iteration of `while let Some((pos, bytes)) = receiver.recv().await`
\* (lines 923-953) for a message that is there.
Recv ==
    /\ cpc = "recv"
    /\ chan # << >>
    /\ LET pos == Head(chan)[1]
           seg == Head(chan)[2]
       IN  /\ marker_seen' = (marker_seen \/ pos = -1)
           /\ reordered' = (reordered \/ (~IsFailureMarker(pos) /\ ~IsNext(data_pos, pos)))
           /\ IF IsFailureMarker(pos)
              THEN /\ cpc' = "join"
                   /\ chan' = Tail(chan)
                   /\ UNCHANGED <<data_pos, buf, sink, result>>
              ELSE LET direct == IF IsNext(data_pos, pos) THEN 1 ELSE 0
                       b1 == IF direct = 1 THEN buf ELSE Insert(buf, pos, seg)
                       dp1 == data_pos + direct
                       ws == (IF direct = 1 THEN <<seg>> ELSE << >>) \o Drained(dp1, b1)
                   IN  \/ /\ WriteOk(ws, direct, dp1, b1)
                          /\ chan' = Tail(chan)
                          /\ UNCHANGED <<cpc, result>>
                       \/ WriteErr(ws, direct, dp1, b1)
    /\ UNCHANGED <<total_segments, cpus, rate_limited, segs, lpc, li,
                   lres, count, count_lock, finished, joined, fail_att, decrypt_failed,
                   marked>>
    /\ UNCHANGED notSeg

\* receiver.recv() yields None: the channel is empty and every sender is dropped,
\* which is when every lane's task has ended.
RecvClosed ==
    /\ cpc = "recv"
    /\ chan = << >>
    /\ AllLanesGone
    /\ cpc' = "join"
    /\ UNCHANGED <<total_segments, cpus, rate_limited, segs, lpc, li,
                   lres, count, count_lock, chan, finished, joined, data_pos, buf,
                   sink, result, fail_att, reordered, decrypt_failed, marked, marker_seen>>
    /\ UNCHANGED notSeg

\* `while let Some(joined) = join_set.join_next().await { joined?? }` for a task
\* that has completed: an error output is returned at once, which drops the
\* join set and the receiver.
JoinNext ==
    /\ cpc = "join"
    /\ joined < Len(finished)
    /\ LET l == JoinPick(SubSeq(finished, joined + 1, Len(finished)))
       IN  IF JoinIsErr(lres[l])
           THEN /\ Return(lres[l])
                /\ UNCHANGED joined
           ELSE /\ joined' = joined + 1
                /\ UNCHANGED <<result, cpc, chan, buf>>
    /\ UNCHANGED <<total_segments, cpus, rate_limited, segs, lpc, li,
                   lres, count, count_lock, finished, data_pos, sink,
                   fail_att, reordered, decrypt_failed, marked, marker_seen>>
    /\ UNCHANGED notSeg

\* join_next yields None: every task of the set has been joined.
JoinDone ==
    /\ cpc = "join"
    /\ joined = cpus
    /\ cpc' = "flush"
    /\ UNCHANGED <<total_segments, cpus, rate_limited, segs, lpc, li,
                   lres, count, count_lock, chan, finished, joined, data_pos, buf,
                   sink, result, fail_att, reordered, decrypt_failed, marked, marker_seen>>
    /\ UNCHANGED notSeg

\* Lines 960-976: write what the buffer holds at the cursor, then fail when the
\* buffer is not empty, else return Ok(()).
Flush ==
    /\ cpc = "flush"
    /\ LET ws == Drained(data_pos, buf)
           rest == Without(buf, data_pos .. (data_pos + Len(ws) - 1))
       IN  \/ /\ sink' = sink \o Concat(ws)
              /\ data_pos' = data_pos + Len(ws)
              /\ Return(IF DOMAIN rest # {} THEN Err("BufferNotEmpty", -1) ELSE OkResult)
           \/ WriteErr(ws, 0, data_pos, buf)
    /\ UNCHANGED <<total_segments, cpus, rate_limited, segs, lpc, li,
                   lres, count, count_lock, finished, joined, fail_att,
                   decrypt_failed, reordered, marked, marker_seen>>
    /\ UNCHANGED notSeg

\* -------------------------------------------------------------------- Spec
Next ==
    \/ \E l \in Lanes : Fetch(l)
    \/ \E l \in Lanes : Lock(l)
    \/ \E l \in Lanes : Send(l)
    \/ \E l \in Lanes : Report(l)
    \/ \E l \in Lanes : Exit(l)
    \/ \E l \in Lanes : Cancel(l)
    \/ Recv
    \/ RecvClosed
    \/ JoinNext
    \/ JoinDone
    \/ Flush

Spec == Init /\ [][Next]_vars

\* ========================================================= check_free_space
\* Downloader::check_free_space (lines 670-731).  Sizes are in bytes; the values
\* tried lie around the tolerance of line 713 and far below 2^63, so the u64
\* doubling and the i64 casts of lines 713-716 are exact.
\* `... .abs() < 10240`
SameFsTolerance == 10240

\* Largest available space tried, in steps of one byte less than the tolerance.
MaxBlocks == 2

SpaceStep == SameFsTolerance - 1

\* values of available_space(): two neighbours at every step, so that two of
\* them differ by less than, exactly, and more than the tolerance
Spaces == {(k * SpaceStep) + j : k \in 0 .. MaxBlocks, j \in 0 .. 1}

\* values of total_space(): two partition sizes
Totals == {t * (MaxBlocks + 1) * SpaceStep : t \in 1 .. 2}

\* values of the summed estimate_variant_file_size
Estimates == {k * SpaceStep : k \in 0 .. ((2 * MaxBlocks) + 1)}

None == [some |-> FALSE]
Some(v) == [some |-> TRUE, v |-> v]

\* (x as i64).abs()
Abs(x) == IF x < 0 THEN -x ELSE x

SamePartitionAvailOnly(ts, ds) ==
    Abs(ts.available_space - ds.available_space) < SameFsTolerance

\* The condition of lines 712-713 on the two statvfs results.
SamePartition(ts, ds) ==
    /\ ts.total_space = ds.total_space
    /\ Abs(ts.available_space - ds.available_space) < SameFsTolerance

DstCheckedStdoutOnly(d) == ~d.is_stdout

\* `!is_special_file(dst) && dst.to_string_lossy() != "-"` for a destination d,
\* given what is_special_file answers for it and whether it is "-".
DstChecked(d) == ~d.is_special_file /\ ~d.is_stdout

\* check_free_space is entered for destination d.
FsEntered(d) ==
    [pc |-> "estimate", dst |-> d, estimated_required_space |-> 0,
     tmp_stat |-> None, dst_stat |-> None, same |-> FALSE,
     tmp_space |-> 0, dst_space |-> 0,
     ret |-> [kind |-> "None", tmp_required |-> None, dst_required |-> None]]

\* download_segments is not being run.
SegNotRun ==
    /\ total_segments = 0 /\ cpus = 1 /\ rate_limited = FALSE
    /\ segs = Partition(0, 0, 1)
    /\ lpc = [l \in Lanes |-> "cancelled"]
    /\ li = [l \in Lanes |-> 0]
    /\ lres = [l \in Lanes |-> NoResult]
    /\ count = 0 /\ count_lock = -1 /\ chan = << >> /\ finished = << >>
    /\ joined = 0 /\ cpc = "none" /\ data_pos = 0 /\ buf = EmptyBuf
    /\ sink = << >> /\ result = NoResult
    /\ fail_att = [l \in Lanes |-> 0]
    /\ reordered = FALSE
    /\ decrypt_failed = [l \in Lanes |-> FALSE]
    /\ marked = << >> /\ marker_seen = FALSE

FsInit ==
    /\ \E sp, so \in BOOLEAN : fs = FsEntered([is_special_file |-> sp, is_stdout |-> so])
    /\ SegNotRun
    /\ dl = NotRun
    /\ sub = NotRun
    /\ ch = NotRun
    /\ mux = NotRun
    /\ pg = NotRun
    /\ font = NotRun /\ exe = NotRun /\ intr = NotRun

\* check_free_space returns r (or unwinds, for kind "Panic").
FsReturn(r) == fs' = [fs EXCEPT !.pc = "done", !.ret = r]

\* Lines 674-688: the estimates of all streams are summed; an error of
\* `variant_data.segments().await?` is returned.
FsEstimate ==
    /\ fs.pc = "estimate"
    /\ \/ FsReturn([fs.ret EXCEPT !.kind = "Err"])
       \/ \E e \in Estimates :
            fs' = [fs EXCEPT !.pc = "stat", !.estimated_required_space = e]
    /\ UNCHANGED notFs

\* Lines 690-705: the two statvfs calls (each `.unwrap()`ed, so a failing call
\* panics), `env::current_dir()?` between them for a relative destination, and
\* the two available_space() reads.
FsStat ==
    /\ fs.pc = "stat"
    /\ \/ FsReturn([fs.ret EXCEPT !.kind = "Panic"])
       \/ FsReturn([fs.ret EXCEPT !.kind = "Err"])
       \/ \E tt, dt \in Totals, ta, da \in Spaces :
            fs' = [fs EXCEPT !.pc = "same",
                             !.tmp_stat = [total_space |-> tt, available_space |-> ta],
                             !.dst_stat = [total_space |-> dt, available_space |-> da],
                             !.tmp_space = ta,
                             !.dst_space = da]
    /\ UNCHANGED notFs

\* Lines 712-717.
FsDouble ==
    /\ fs.pc = "same"
    /\ IF SamePartition(fs.tmp_stat, fs.dst_stat)
       THEN fs' = [fs EXCEPT !.pc = "compare", !.same = TRUE,
                             !.tmp_space = fs.tmp_space * 2,
                             !.dst_space = fs.dst_space * 2]
       ELSE fs' = [fs EXCEPT !.pc = "compare"]
    /\ UNCHANGED notFs

\* Lines 719-730.
FsCompare ==
    /\ fs.pc = "compare"
    /\ LET est == fs.estimated_required_space
           tmp_required == IF fs.tmp_space < est
                           THEN Some(<<"temp_directory", est>>) ELSE None
           dst_required == IF DstChecked(fs.dst) /\ fs.dst_space < est
                           THEN Some(<<"dst_file", est>>) ELSE None
       IN  FsReturn([kind |-> "Ok", tmp_required |-> tmp_required,
                     dst_required |-> dst_required])
    /\ UNCHANGED notFs

FsNext == FsEstimate \/ FsStat \/ FsDouble \/ FsCompare

SpecFreeSpace == FsInit /\ [][FsNext]_vars

\* ====================================================== Downloader::download
\* Downloader::download (lines 158-668): the preflight, the per-format loop that
\* stages one file per stream, the fonts, the ffmpeg arguments and the ffmpeg
\* process.  A call of download_video, download_audio or download_subtitle is
\* one step whose outcome is Ok or Err (download_segments above, fix_subtitles
\* below); the contents of the staged files and of the argument list are not
\* part of this state.
\* Largest number of formats (self.formats.len()).
MaxFormats == 2
\* Largest number of audios and of subtitles of one format.
MaxTracks == 1

\* A DownloadFormat, by the lengths of its `audios` and `subtitles`.
DownloadFormats == [audios : 0 .. MaxTracks, subtitles : 0 .. MaxTracks]

\* What check_free_space can end in: a panic of `statvfs(..).unwrap()`, an Err,
\* or Ok with each of the two shortages reported or not.
FsOutcomes ==
    {[kind |-> "Panic", tmp_required |-> None, dst_required |-> None],
     [kind |-> "Err", tmp_required |-> None, dst_required |-> None]}
    \cup [kind : {"Ok"},
          tmp_required : {None, Some(<<"temp_directory", SpaceStep>>)},
          dst_required : {None, Some(<<"dst_file", SpaceStep>>)}]

\* download is entered with the formats fs0 added by add_format.
DlEntered(fs0, ncc) ==
    [pc |-> "preflight", formats |-> fs0, no_closed_caption |-> ncc,
     i |-> 0, a |-> 0, k |-> 0,
     preflight |-> [kind |-> "None", tmp_required |-> None, dst_required |-> None],
     required |-> <<None, None>>, warned |-> << >>,
     videos |-> 0, audios |-> 0, subtitles |-> 0,
     \* history: the stream downloads started, the first that failed, and
     \* whether the ffmpeg process was spawned
     downloads |-> << >>, failed |-> None, spawned |-> FALSE,
     ret |-> [kind |-> "None", at |-> << >>]]

DlInit ==
    /\ \E n \in 0 .. MaxFormats : \E fs0 \in [1 .. n -> DownloadFormats] :
         \E ncc \in BOOLEAN : dl = DlEntered(fs0, ncc)
    /\ SegNotRun
    /\ fs = NotRun
    /\ sub = NotRun
    /\ ch = NotRun
    /\ mux = NotRun
    /\ pg = NotRun
    /\ font = NotRun /\ exe = NotRun /\ intr = NotRun

\* download returns r (or unwinds, for kind "Panic"), from the place `at`.
DlReturn(d, k, at) == dl' = [d EXCEPT !.pc = "done", !.ret = [kind |-> k, at |-> at]]

PreflightAbortsOnErr(r) == r.kind # "Ok"

\* Whether the outcome r of check_free_space ends download at line 161:
\* `.unwrap_or_default()` turns an Err into (None, None), an Ok is used as it
\* is, and only a panic inside the call unwinds through download.
PreflightAborts(r) == r.kind = "Panic"

\* The `warn!` records of lines 162-183 for the pair `required`.
Warnings(required) ==
    (IF required[1].some THEN <<"tmp">> ELSE << >>) \o
    (IF required[2].some THEN <<"dst">> ELSE << >>)

\* Lines 161-183.
DlPreflight ==
    /\ dl.pc = "preflight"
    /\ \E r \in FsOutcomes :
         LET d == [dl EXCEPT !.preflight = r]
             required == IF r.kind = "Ok" THEN <<r.tmp_required, r.dst_required>>
                         ELSE <<None, None>>
         IN  IF PreflightAborts(r)
             THEN DlReturn(d, r.kind, <<"check_free_space">>)
             ELSE dl' = [d EXCEPT !.pc = "fmt_space", !.required = required,
                                  !.warned = Warnings(required)]
    /\ UNCHANGED notDl

\* The audios of all formats, as `flat_map` of lines 226-233 yields them.
AllAudios(fs0) == {x \in (1 .. Len(fs0)) \X (1 .. MaxTracks) : x[2] <= fs0[x[1]].audios}

\* Lines 185-236: the sorts (which keep the lengths), the empty staging vectors
\* and fmt_space, whose `.max().unwrap()` panics when the formats have no audio
\* at all (without a format there is none); then the loop is entered.
DlFmtSpace ==
    /\ dl.pc = "fmt_space"
    /\ IF AllAudios(dl.formats) = {}
       THEN DlReturn(dl, "Panic", <<"fmt_space">>)
       ELSE dl' = [dl EXCEPT !.pc = "video"]
    /\ UNCHANGED notDl

\* The format of the current iteration, `format`.
CurFormat == dl.formats[dl.i + 1]

StreamErrFatalButSubtitle(kind) == kind # "subtitle"

\* `self.download_video(..).await?`, `self.download_audio(..).await?` and
\* `self.download_subtitle(..).await?`: an Err of the call is returned from
\* download by `?`, for every kind of stream.
StreamErrFatal(kind) == TRUE

\* One call of download_video / download_audio / download_subtitle for stream
\* <<kind, i, j>> that ends in Ok (ok) or Err; `onward` is the state download
\* goes on with after an Ok.
DownloadStream(kind, j, ok, onward) ==
    LET at == <<kind, dl.i, j>>
        Logged(d) == [d EXCEPT !.downloads = Append(dl.downloads, at),
                               !.failed = IF ~ok /\ ~dl.failed.some THEN Some(at)
                                          ELSE dl.failed]
    IN  IF ~ok /\ StreamErrFatal(kind)
        THEN DlReturn(Logged(dl), "Err", at)
        ELSE dl' = Logged(onward)

\* Where the loop body goes after the audios: get_video_stats is next.
AfterAudios(d) == [d EXCEPT !.pc = "stats"]

\* Lines 238-243.
DlVideo ==
    /\ dl.pc = "video"
    /\ \E ok \in BOOLEAN :
         DownloadStream("video", 0, ok,
                        IF CurFormat.audios = 0 THEN AfterAudios(dl)
                        ELSE [dl EXCEPT !.pc = "audio", !.a = 0])
    /\ UNCHANGED notDl

\* Lines 244-260: one iteration of the loop over format.audios.
DlAudio ==
    /\ dl.pc = "audio"
    /\ \E ok \in BOOLEAN :
         LET d == [dl EXCEPT !.a = dl.a + 1, !.audios = dl.audios + 1]
         IN  DownloadStream("audio", dl.a, ok,
                            IF dl.a + 1 < CurFormat.audios THEN d ELSE AfterAudios(d))
    /\ UNCHANGED notDl

\* Where the loop body goes after the subtitles: `videos.push` and the chapters.
AfterSubtitles(d) == [d EXCEPT !.pc = "push"]

\* Lines 262-271: `get_video_stats(&video_path)?`, max_len and max_frames, and
\* the test `!format.subtitles.is_empty()`.
DlStats ==
    /\ dl.pc = "stats"
    /\ \/ DlReturn(dl, "Err", <<"get_video_stats", dl.i>>)
       \/ dl' = IF CurFormat.subtitles = 0 THEN AfterSubtitles(dl)
                ELSE [dl EXCEPT !.pc = "subtitle", !.k = 0]
    /\ UNCHANGED notDl

\* Lines 292-334: one iteration of the loop over format.subtitles, for a
\* subtitle that is a closed caption or not (not_cc): `continue` for a closed
\* caption when no_closed_caption is set, else the download and the push.
DlSubtitle ==
    /\ dl.pc = "subtitle"
    /\ \E not_cc, ok \in BOOLEAN :
         LET skip == [dl EXCEPT !.k = dl.k + 1]
             last == dl.k + 1 >= CurFormat.subtitles
         IN  IF ~not_cc /\ dl.no_closed_caption
             THEN dl' = IF last THEN AfterSubtitles(skip) ELSE skip
             ELSE LET d == [skip EXCEPT !.subtitles = dl.subtitles + 1]
                  IN  DownloadStream("subtitle", dl.k, ok,
                                     IF last THEN AfterSubtitles(d) ELSE d)
    /\ UNCHANGED notDl

\* Lines 336-361: `videos.push`, the chapter file when the format has skip
\* events (`tempfile(".chapter")?`), and the next iteration or the end of the
\* loop over the formats.
DlPush ==
    /\ dl.pc = "push"
    /\ \/ DlReturn(dl, "Err", <<"tempfile", dl.i>>)
       \/ dl' = [dl EXCEPT !.videos = dl.videos + 1,
                           !.i = dl.i + 1,
                           !.pc = IF dl.i + 1 < Len(dl.formats) THEN "video" ELSE "fonts"]
    /\ UNCHANGED notDl

\* Lines 363-416: the fonts of the staged subtitles, when fonts are asked for
\* (`get_subtitle_stats(..)?`, `self.download_font(..).await?`).
DlFonts ==
    /\ dl.pc = "fonts"
    /\ \/ DlReturn(dl, "Err", <<"fonts">>)
       \/ dl' = [dl EXCEPT !.pc = "args"]
    /\ UNCHANGED notDl

\* Lines 418-637: the argument list, with `write_ffmpeg_chapters(..)?`,
\* `temp_named_pipe()?` and `create_dir_all(parent)?`.
DlArgs ==
    /\ dl.pc = "args"
    /\ \/ DlReturn(dl, "Err", <<"args">>)
       \/ dl' = [dl EXCEPT !.pc = "spawn"]
    /\ UNCHANGED notDl

\* Lines 639-659: `Command::new("ffmpeg") ... .spawn()?`.
DlSpawn ==
    /\ dl.pc = "spawn"
    /\ \/ DlReturn(dl, "Err", <<"spawn">>)
       \/ dl' = [dl EXCEPT !.pc = "wait", !.spawned = TRUE]
    /\ UNCHANGED notDl

\* Lines 661-667: `ffmpeg.wait_with_output()?`, the exit status and the result
\* of the progress task.
DlWait ==
    /\ dl.pc = "wait"
    /\ \/ DlReturn(dl, "Err", <<"ffmpeg">>)
       \/ DlReturn(dl, "Ok", << >>)
    /\ UNCHANGED notDl

DlNext ==
    \/ DlPreflight
    \/ DlFmtSpace
    \/ DlVideo
    \/ DlAudio
    \/ DlStats
    \/ DlSubtitle
    \/ DlPush
    \/ DlFonts
    \/ DlArgs
    \/ DlSpawn
    \/ DlWait

SpecDownload == DlInit /\ [][DlNext]_vars

\* ============================================================ fix_subtitles
\* fix_subtitles (lines 1141-1221).  A document is the sequence of the lines
\* that `split('\n')` yields.  A line is the script-info header (its trim is
\* "[Script Info]"), a line the Dialogue regex matches, the directive
\* "ScaledBorderAndShadow: yes", or any other line; `id` stands for the rest of
\* a line's text.  A timestamp is the text "h:mm:ss.cc" as the pair <<seconds,
\* cc>>; the values tried are well-formed times below 10 hours (parse_from_str
\* is `.unwrap()`ed and `split_off(1)` keeps one hour digit), and the layer is
\* a number that `i32::from_str` and `{}` give back as it was.
\* Largest number of lines of a document.
MaxLines == 4

\* `formatted_time.split_at(2)`: the first 2 of the 9 digits of "%f" are the
\* hundredths of a second, 10^7 nanoseconds each.
NanosPerCenti == 10000000

NanosPerSec == 100 * NanosPerCenti

\* timestamps of dialogue lines
Stamps == {<<0, 0>>, <<1, 0>>, <<1, 50>>, <<2, 0>>}

\* values of max_length: 0:00:01.00 and 0:00:01.20, as get_video_stats parses
\* them with "%H:%M:%S%.f" (line 1011)
MaxLengths == {NanosPerSec, NanosPerSec + (20 * NanosPerCenti)}

Info == [kind |-> "info"]
Directive == [kind |-> "directive"]
Other(id) == [kind |-> "other", id |-> id]
Dialogue(start, end, id) == [kind |-> "dialogue", start |-> start, end |-> end, id |-> id]

\* The lines a document is made of, before each is given the text that tells
\* it from the other lines.
LineShapes ==
    {Info, Other(0), Dialogue(<<2, 0>>, <<0, 0>>, 0)} \cup
    UNION {{Dialogue(st, st, 0), Dialogue(st, <<2, 0>>, 0)} : st \in Stamps}

\* The line with the text that is particular to position p.
LineAt(line, p) == IF line.kind \in {"other", "dialogue"} THEN [line EXCEPT !.id = p] ELSE line

\* `line.trim() == "[Script Info]"`
IsScriptInfo(line) == line.kind = "info"

\* `re.captures(line)` is Some
IsDialogue(line) == line.kind = "dialogue"

\* `NaiveTime::parse_from_str(s, "%H:%M:%S.%f")`: "%f" reads the digits after the
\* point as a number of nanoseconds.
ParseTime(t) == (t[1] * NanosPerSec) + t[2]

\* format_naive_time (lines 1149-1161): "%T", a point, and the first two of the
\* nine digits of "%f".
format_naive_time(n) == <<n \div NanosPerSec, (n % NanosPerSec) \div NanosPerCenti>>

\* Lines 1174-1191: the start and end of a dialogue line as parsed and clipped.
Clipped(line, max_length) ==
    LET start0 == ParseTime(line.start)
        end0 == ParseTime(line.end)
        start == IF (start0 > max_length \/ end0 > max_length) /\ start0 > max_length
                 THEN max_length ELSE start0
        end == IF (start0 > max_length \/ end0 > max_length)
                  /\ (start > max_length \/ end0 > max_length)
               THEN max_length ELSE end0
    IN  [rewrite |-> (start0 > max_length \/ end0 > max_length),
         start |-> start, end |-> end]

\* The body of the loop of lines 1170-1208 for one line: what the element of
\* as_lines is afterwards.  An element is the sequence of the lines its string
\* holds; `push_str("\nScaledBorderAndShadow: yes")` makes it two.
ScanLine(line, max_length) ==
    IF IsScriptInfo(line) THEN <<line, Directive>>
    ELSE IF IsDialogue(line)
         THEN LET c == Clipped(line, max_length)
              IN  IF c.rewrite
                  THEN <<[line EXCEPT !.start = format_naive_time(c.start),
                                      !.end = format_naive_time(c.end)]>>
                  ELSE <<line>>
         ELSE <<line>>

\* The positions of the dialogue lines of a document, ascending (entries.1).
\* Positions count from 1 here and from 0 in the code.
RECURSIVE DialoguePositions(_, _)
DialoguePositions(doc, p) ==
    IF p > Len(doc) THEN << >>
    ELSE (IF IsDialogue(doc[p]) THEN <<p>> ELSE << >>) \o DialoguePositions(doc, p + 1)

\* entries.0 after the loop: (start, i) of every dialogue line, in line order.
Entries0(doc, max_length) ==
    LET ps == DialoguePositions(doc, 1)
    IN  [j \in 1 .. Len(ps) |-> <<Clipped(doc[ps[j]], max_length).start, ps[j]>>]

RECURSIVE InsertSorted(_, _)
\* e put into the sorted sequence es after every entry that is not greater.
InsertSorted(es, e) ==
    IF es = << >> THEN <<e>>
    ELSE IF e[1] < Head(es)[1] THEN <<e>> \o es
    ELSE <<Head(es)>> \o InsertSorted(Tail(es), e)

RECURSIVE SortByStart(_)
\* `entries.0.sort_by(|(a, _), (b, _)| a.cmp(b))`: a stable sort on the start.
SortByStart(es) ==
    IF es = << >> THEN << >>
    ELSE InsertSorted(SortByStart(SubSeq(es, 1, Len(es) - 1)), es[Len(es)])

\* as_lines.swap(a, b)
Swap(ls, a, b) == [ls EXCEPT ![a] = ls[b], ![b] = ls[a]]

NewPositionIndex(e1, i) == i

\* `let new_position = entries.1[i]`
NewPosition(e1, i) == e1[i]

RECURSIVE SwapFrom(_, _, _, _)
\* The loop of lines 1211-1218 from index i on.
SwapFrom(ls, e0, e1, i) ==
    IF i > Len(e0) THEN ls
    ELSE LET original_position == e0[i][2]
             new_position == NewPosition(e1, i)
         IN  SwapFrom(IF original_position # new_position
                      THEN Swap(ls, original_position, new_position) ELSE ls,
                      e0, e1, i + 1)

RECURSIVE Join(_)
\* `as_lines.join("\n")`, as the lines of the resulting document.
Join(ls) == IF ls = << >> THEN << >> ELSE Head(ls) \o Join(Tail(ls))

\* fix_subtitles as a whole: the document `raw` is left as.
FixSubtitles(raw, max_length) ==
    LET as_lines == [p \in 1 .. Len(raw) |-> ScanLine(raw[p], max_length)]
    IN  Join(SwapFrom(as_lines, SortByStart(Entries0(raw, max_length)),
                      DialoguePositions(raw, 1), 1))

\* fix_subtitles is entered with the document doc and max_length m.
SubEntered(doc, m) ==
    [pc |-> "scan", raw |-> doc, max_length |-> m, as_lines |-> << >>,
     entries |-> <<(<< >>), (<< >>)>>,
     \* history: the document at entry
     input |-> doc]

SubInit ==
    /\ \E n \in 0 .. MaxLines : \E shape \in [1 .. n -> LineShapes] : \E m \in MaxLengths :
         sub = SubEntered([p \in 1 .. n |-> LineAt(shape[p], p)], m)
    /\ SegNotRun
    /\ fs = NotRun
    /\ dl = NotRun
    /\ ch = NotRun
    /\ mux = NotRun
    /\ pg = NotRun
    /\ font = NotRun /\ exe = NotRun /\ intr = NotRun

\* Lines 1163-1208: the split into as_lines and the loop over the lines.
SubScan ==
    /\ sub.pc = "scan"
    /\ sub' = [sub EXCEPT
                 !.pc = "sort",
                 !.as_lines = [p \in 1 .. Len(sub.raw) |-> ScanLine(sub.raw[p], sub.max_length)],
                 !.entries = <<Entries0(sub.raw, sub.max_length),
                               DialoguePositions(sub.raw, 1)>>]
    /\ UNCHANGED notSub

\* Line 1210.
SubSort ==
    /\ sub.pc = "sort"
    /\ sub' = [sub EXCEPT !.pc = "swap",
                          !.entries = <<SortByStart(sub.entries[1]), sub.entries[2]>>]
    /\ UNCHANGED notSub

\* Lines 1211-1218.
SubSwap ==
    /\ sub.pc = "swap"
    /\ sub' = [sub EXCEPT !.pc = "join",
                          !.as_lines = SwapFrom(sub.as_lines, sub.entries[1], sub.entries[2], 1)]
    /\ UNCHANGED notSub

\* Line 1220.
SubJoin ==
    /\ sub.pc = "join"
    /\ sub' = [sub EXCEPT !.pc = "done", !.raw = Join(sub.as_lines)]
    /\ UNCHANGED notSub

SubNext == SubScan \/ SubSort \/ SubSwap \/ SubJoin

SpecSubtitles == SubInit /\ [][SubNext]_vars

\* ================================================ write_ffmpeg_chapters
\* Lines 1241 and 1260: a gap of more than this many seconds gets a chapter.
FillerGap == 10

\* The most skip events a format carries in the model (the code has four
\* optional ones: recap, intro, credits, preview).
MaxEvents == 2

\* Lines 349-352: the events in the order the caller collects them.
EventNames == <<"Recap", "Intro", "Credits", "Preview">>

\* SkipEventsEvent.start and .end, in seconds.
EventTimes == {0, 10, 11, 40}

\* video_len as the caller passes it, in hundredths of a second.
VideoLens == {5000, 5099, 10000}

Chapter(title, start, end) == [title |-> title, start |-> start, end |-> end]

\* Lines 345-356: the events that are present, in the order of EventNames.
RECURSIVE Collected(_, _)
Collected(present, n) ==
    IF n > Len(EventNames) THEN << >>
    ELSE (IF EventNames[n] \in DOMAIN present
          THEN <<Chapter(EventNames[n], present[EventNames[n]][1], present[EventNames[n]][2])>>
          ELSE << >>) \o Collected(present, n + 1)

RECURSIVE InsertEvent(_, _)
InsertEvent(e, sorted) ==
    IF sorted = << >> THEN <<e>>
    ELSE IF e.start < Head(sorted).start THEN <<e>> \o sorted
    ELSE <<Head(sorted)>> \o InsertEvent(e, Tail(sorted))

UnsortedEvents(events) == events

\* Line 1231: events.sort_by(start), a stable sort.
RECURSIVE sort_by_start(_)
sort_by_start(events) ==
    IF events = << >> THEN << >>
    ELSE InsertEvent(events[Len(events)], sort_by_start(SubSeq(events, 1, Len(events) - 1)))

FillerDueFromTen(from, to) == to - from >= FillerGap

\* Lines 1241 and 1260: `to as i32 - from as i32 > 10`.
FillerDue(from, to) == to - from > FillerGap

\* Lines 1242-1246 and 1261-1265.
Filler(from, to) == IF FillerDue(from, to) THEN <<Chapter("Episode", from, to)>> ELSE << >>

\* Lines 1223-1230: num_seconds() drops the fraction of video_len.
ChEntered(events, video_len) ==
    [pc |-> "sort", events |-> events, video_len |-> video_len \div 100,
     i |-> 1, last_end_time |-> 0, file |-> << >>, ret |-> "none",
     \* history: the events as passed
     input |-> events]

ChInit ==
    /\ \E names \in SUBSET {EventNames[n] : n \in 1 .. Len(EventNames)} :
         /\ Cardinality(names) <= MaxEvents
         /\ \E present \in [names -> EventTimes \X EventTimes] : \E v \in VideoLens :
              ch = ChEntered(Collected(present, 1), v)
    /\ SegNotRun
    /\ fs = NotRun
    /\ dl = NotRun
    /\ sub = NotRun
    /\ mux = NotRun
    /\ pg = NotRun
    /\ font = NotRun /\ exe = NotRun /\ intr = NotRun

\* A writeln! that fails: `?` returns the error (what reached the file before
\* is not modelled further).
ChWriteErr ==
    /\ ch.pc \in {"sort", "loop"}
    /\ ch' = [ch EXCEPT !.pc = "done", !.ret = "Err"]
    /\ UNCHANGED notCh

\* Lines 1231-1235.
ChSort ==
    /\ ch.pc = "sort"
    /\ ch' = [ch EXCEPT !.pc = "loop", !.events = sort_by_start(ch.events)]
    /\ UNCHANGED notCh

\* Lines 1236-1255: one iteration of the loop.
ChEvent ==
    /\ ch.pc = "loop"
    /\ ch.i <= Len(ch.events)
    /\ LET event == ch.events[ch.i]
       IN  ch' = [ch EXCEPT
                    !.file = @ \o Filler(ch.last_end_time, event.start) \o <<event>>,
                    !.last_end_time = event.end,
                    !.i = @ + 1]
    /\ UNCHANGED notCh

\* Lines 1257-1268.
ChTrailing ==
    /\ ch.pc = "loop"
    /\ ch.i > Len(ch.events)
    /\ ch' = [ch EXCEPT !.pc = "done", !.ret = "Ok",
                        !.file = @ \o Filler(ch.last_end_time, ch.video_len)]
    /\ UNCHANGED notCh

ChNext == ChWriteErr \/ ChSort \/ ChEvent \/ ChTrailing

SpecChapters == ChInit /\ [][ChNext]_vars

\* ===================================== Downloader::download: the command line
\* The most subtitles the formats carry together.
MaxSubtitles == 2

\* A path, by its components: "/" is Path(TRUE, << >>), "" is
\* Path(FALSE, << >>), "dir/out.mkv" is Path(FALSE, <<"dir", "out.mkv">>).
Path(root, comps) == [root |-> root, comps |-> comps]

\* Path::parent: None for a path that ends in the root or is empty.
parent(p) == IF p.comps = << >> THEN None
             ELSE Some(Path(p.root, SubSeq(p.comps, 1, Len(p.comps) - 1)))

\* Path::join: an absolute path replaces the base.
join(base, p) == IF p.root THEN p ELSE Path(base.root, base.comps \o p.comps)

\* `dst.extension().unwrap_or_default()`, for the file names of the model.
extension(p) ==
    LET name == IF p.comps = << >> THEN "" ELSE p.comps[Len(p.comps)]
    IN  CASE name = "out.mkv" -> "mkv"
          [] name = "out.mp4" -> "mp4"
          [] name = "out.mov" -> "mov"
          [] name = "out.avi" -> "avi"
          [] OTHER -> ""

\* The `dst` argument of download.
Destinations ==
    {Path(FALSE, <<name>>) : name \in {"out.mkv", "out.mp4", "out.mov", "out.avi", "-"}}
        \cup {Path(FALSE, <<"dir", "out.mkv">>), Path(TRUE, << >>), Path(FALSE, << >>)}

Locales == {"en-US", "de-DE"}

\* Locale::to_human_readable
to_human_readable(locale) == IF locale = "en-US" THEN "English (US)" ELSE "German"

\* The n-th temporary file of a kind (tempfile, temp_named_pipe).
TempPath(names, n) == Path(TRUE, <<"tmp", names[n]>>)

\* Lines 312-318: the title, as the parts it is put together from. A subtitle s
\* of a format is its locale, its not_cc flag and the index i of the format.
subtitle_title(s) ==
    <<to_human_readable(s.locale)>>
        \o (IF ~s.not_cc THEN <<" (CC)">> ELSE << >>)
        \o (IF s.i # 0 THEN <<" [Video: #2]">> ELSE << >>)

\* Line 293: `if !not_cc && self.no_closed_caption { continue; }`
SkipSubtitle(s, no_closed_caption) == ~s.not_cc /\ no_closed_caption

\* Lines 292-334: the subtitles staged from the given ones, in order, each an
\* FFmpegMeta.
RECURSIVE Staged(_, _, _)
Staged(given, no_closed_caption, staged) ==
    IF given = << >> THEN staged
    ELSE Staged(Tail(given), no_closed_caption,
                IF SkipSubtitle(Head(given), no_closed_caption) THEN staged
                ELSE Append(staged,
                            [path |-> TempPath(<<"s1.ass", "s2.ass", "s3.ass", "s4.ass">>,
                                               Len(staged) + 1),
                             language |-> Head(given).locale,
                             title |-> subtitle_title(Head(given))]))

\* One argument of the command line: a text, with the number, the value or the
\* path that is formatted into it.
Opt(text) == [text |-> text, n |-> -1, val |-> << >>, path |-> Path(FALSE, << >>)]
Indexed(text, n) == [Opt(text) EXCEPT !.n = n]
Valued(text, val) == [Opt(text) EXCEPT !.val = val]
OfPath(text, path) == [Opt(text) EXCEPT !.path = path]

RECURSIVE Flatten(_)
Flatten(ss) == IF ss = << >> THEN << >> ELSE Head(ss) \o Flatten(Tail(ss))

\* Lines 336-344: `videos.push`, the title by the number of formats.
VideoTitle(i, formats) == IF formats = 1 THEN "Default" ELSE IF i = 0 THEN "#1" ELSE "#2"

\* Lines 462-464.
container_supports_softsubs(force_hardsub, dst) ==
    ~force_hardsub /\ extension(dst) \in {"mkv", "mov", "mp4"}

\* Lines 423-433, one video.
VideoInput(i, formats) ==
    [input |-> <<Opt("-i"), OfPath("", TempPath(<<"v1.mp4", "v2.mp4">>, i + 1))>>,
     maps |-> <<Opt("-map"), Indexed("", i)>>,
     metadata |-> <<Indexed("-metadata:s:v:", i), Valued("title=", <<VideoTitle(i, formats)>>),
                    Indexed("-metadata:s:v:", i), Valued("language=", << >>)>>]

\* Lines 434-450, one audio (one audio a video; the locale output maps are
\* empty).
AudioInput(i, videos) ==
    [input |-> <<Opt("-i"), OfPath("", TempPath(<<"a1.m4a", "a2.m4a">>, i + 1))>>,
     maps |-> <<Opt("-map"), Indexed("", i + videos)>>,
     metadata |-> <<Indexed("-metadata:s:a:", i), Valued("language=", <<"ja-JP">>),
                    Indexed("-metadata:s:a:", i), Valued("title=", <<"Japanese">>)>>]

\* Lines 466-487, one subtitle.
SubtitleInput(i, meta, videos, audios) ==
    [input |-> <<Opt("-i"), OfPath("", meta.path)>>,
     maps |-> <<Opt("-map"), Indexed("", i + videos + audios)>>,
     metadata |-> <<Indexed("-metadata:s:s:", i), Valued("language=", <<meta.language>>),
                    Indexed("-metadata:s:s:", i), Valued("title=", meta.title)>>]

ChapterInputAfterSubtitles(videos, audios, subtitles, softsubs) ==
    [input |-> <<Opt("-i"), OfPath("", TempPath(<<"c.chapter">>, 1))>>,
     maps |-> <<Opt("-map_metadata"), Indexed("", videos + audios + subtitles)>>,
     metadata |-> << >>]

\* Lines 489-501: the chapter file.
ChapterInput(videos, audios, subtitles, softsubs) ==
    [input |-> <<Opt("-i"), OfPath("", TempPath(<<"c.chapter">>, 1))>>,
     maps |-> <<Opt("-map_metadata"),
                Indexed("", videos + audios + (IF softsubs THEN subtitles ELSE 0))>>,
     metadata |-> << >>]

\* Lines 423-501: the inputs in the order videos, audios, subtitles (when the
\* container takes them), chapters.
Inputs(m) ==
    LET softsubs == container_supports_softsubs(m.force_hardsub, m.dst)
        n == Len(m.subtitles)
    IN  [q \in 1 .. m.videos |-> VideoInput(q - 1, m.videos)]
          \o [q \in 1 .. m.videos |-> AudioInput(q - 1, m.videos)]
          \o (IF softsubs
              THEN [q \in 1 .. n |-> SubtitleInput(q - 1, m.subtitles[q], m.videos, m.videos)]
              ELSE << >>)
          \o (IF m.chapters
              THEN <<ChapterInput(m.videos, m.videos, n, softsubs)>>
              ELSE << >>)

\* Lines 452-458: the attached fonts.
Attachments(fonts) ==
    [attachments |->
         Flatten([q \in 1 .. fonts |->
                    <<Opt("-attach"), OfPath("", Path(TRUE, <<"cache", "font.woff2">>))>>]),
     metadata |->
         Flatten([q \in 1 .. fonts |->
                    <<Indexed("-metadata:s:t:", q - 1),
                      Valued("mimetype=", <<"font/woff2">>)>>])]

\* Lines 507-522: the command line up to the thread count.
CommandHead(m) ==
    LET ins == Inputs(m)
        part(f) == Flatten([q \in 1 .. Len(ins) |-> ins[q][f]])
        \* the metadata of the fonts is added between that of the audios and
        \* that of the subtitles
        metas == [q \in 1 .. Len(ins) |-> ins[q].metadata]
        meta_before == Flatten(SubSeq(metas, 1, 2 * m.videos))
        meta_after == Flatten(SubSeq(metas, (2 * m.videos) + 1, Len(ins)))
    IN  <<Opt("-y"), Opt("-hide_banner"), Opt("-vstats_file"), OfPath("", TempPath(<<"fifo">>, 1))>>
          \o m.preset.input
          \o part("input")
          \o part("maps")
          \o Attachments(m.fonts).attachments
          \o meta_before \o Attachments(m.fonts).metadata \o meta_after
          \o (IF ~m.preset.custom /\ m.ffmpeg_threads.some
              THEN <<Opt("-threads"), Indexed("", m.ffmpeg_threads.v)>>
              ELSE << >>)

\* What FFmpegPreset::into_input_output_args gives: a preset that copies both
\* streams, and custom presets, one of them with two codec options in a row.
Presets ==
    {[custom |-> FALSE, input |-> << >>,
      output |-> <<Opt("-c:v"), Opt("copy"), Opt("-c:a"), Opt("copy")>>],
     [custom |-> TRUE, input |-> <<Opt("-hwaccel"), Opt("cuda")>>,
      output |-> <<Opt("-crf"), Opt("18"), Opt("-c:a"), Opt("copy"), Opt("-c:v"), Opt("libx264")>>],
     [custom |-> TRUE, input |-> << >>,
      output |-> <<Opt("-c:v"), Opt("-c:a"), Opt("copy"), Opt("copy")>>]}

\* self.formats.len(), self.ffmpeg_threads, self.output_format, the chapter
\* file and the number of fonts.
Extras ==
    {[formats |-> 1, ffmpeg_threads |-> None, output_format |-> None, chapters |-> FALSE,
      fonts |-> 0],
     [formats |-> 2, ffmpeg_threads |-> Some(4), output_format |-> Some("matroska"),
      chapters |-> TRUE, fonts |-> 1]}

\* Vec::remove, with the index counted from 0.
remove(v, index) == SubSeq(v, 1, index) \o SubSeq(v, index + 2, Len(v))

\* Lines 543-553: the loop over a clone of the output presets, from index i,
\* with the two `output_presets.remove` of an iteration.
RECURSIVE RemoveCopy(_, _, _, _, _)
RemoveCopy(output_presets, clone, i, last, remove_count) ==
    IF i >= Len(clone) THEN output_presets
    ELSE LET s == clone[i + 1].text
             hit == (last = "-c:v" \/ last = "-c:a") /\ s = "copy"
         IN  RemoveCopy(IF hit
                        THEN remove(remove(output_presets, i - remove_count - 1),
                                    i - (remove_count + 1))
                        ELSE output_presets,
                        clone, i + 1, s,
                        IF hit THEN remove_count + 2 ELSE remove_count)

PositionLast(subtitles, default_subtitle) ==
    LET hits == {q \in 1 .. Len(subtitles) : subtitles[q].language = default_subtitle}
    IN  IF hits = {} THEN None
        ELSE Some((CHOOSE q \in hits : \A r \in hits : r <= q) - 1)

\* Lines 526-528 and 586-588: `subtitles.iter().position(|m| m.language ==
\* default_subtitle)`, counted from 0.
position(subtitles, default_subtitle) ==
    LET hits == {q \in 1 .. Len(subtitles) : subtitles[q].language = default_subtitle}
    IN  IF hits = {} THEN None
        ELSE Some((CHOOSE q \in hits : \A r \in hits : q <= r) - 1)

\* Lines 524-583: what the default subtitle makes of the output presets.
DefaultPresets(m) ==
    LET pos == IF m.default_subtitle.some
               THEN position(m.subtitles, m.default_subtitle.v) ELSE None
    IN  IF ~pos.some THEN m.output_presets
        ELSE IF container_supports_softsubs(m.force_hardsub, m.dst)
        THEN IF extension(m.dst) \in {"mov", "mp4"}
             THEN m.output_presets
                      \o <<Opt("-movflags"), Opt("faststart"), Opt("-c:s"), Opt("mov_text")>>
             ELSE m.output_presets
        ELSE RemoveCopy(m.output_presets, m.output_presets, 0, "", 0)
                 \o <<Opt("-vf"), OfPath("ass=", m.subtitles[pos.v + 1].path)>>

\* Lines 585-595: the disposition of the default subtitle.
DefaultDisposition(m) ==
    LET pos == IF m.default_subtitle.some /\ container_supports_softsubs(m.force_hardsub, m.dst)
               THEN position(m.subtitles, m.default_subtitle.v) ELSE None
    IN  IF pos.some THEN <<Indexed("-disposition:s:s:", pos.v), Opt("default")>> ELSE << >>

ForcedUnlessClosedCaption(title) == \A q \in 1 .. Len(title) : title[q] # " (CC)"

\* Lines 599-604: the subtitles that get the forced flag, those with
\* `title.contains("(CC)")`.
IsForced(title) == \E q \in 1 .. Len(title) : title[q] = " (CC)"

\* Lines 598-607.
ForcedDispositions(subtitles) ==
    Flatten([q \in 1 .. Len(subtitles) |->
              IF IsForced(subtitles[q].title)
              THEN <<Indexed("-disposition:s:s:", q - 1), Opt("forced")>>
              ELSE << >>])

PrefixedWithoutParent(dst) == ~parent(dst).some

\* Lines 620-623: `dst.parent().map_or(true, |p| p.to_string_lossy().is_empty())`
\* (the target is not Windows).
Prefixed(dst) ==
    IF parent(dst).some THEN ~parent(dst).v.root /\ parent(dst).v.comps = << >> ELSE TRUE

\* Lines 620-628.
Destination(dst) == IF Prefixed(dst) THEN join(Path(FALSE, <<".">>), dst) ELSE dst

\* The subtitles of the formats in the order of the formats: the first is of
\* the first format, the others of the last.
Given(kinds, formats) ==
    [q \in 1 .. Len(kinds) |->
        [locale |-> kinds[q][1], not_cc |-> kinds[q][2],
         i |-> IF q = 1 THEN 0 ELSE formats - 1]]

MuxEntered(given, dst, force_hardsub, no_closed_caption, default_subtitle, preset, extras) ==
    [pc |-> "stage", given |-> given, dst |-> dst, force_hardsub |-> force_hardsub,
     no_closed_caption |-> no_closed_caption, default_subtitle |-> default_subtitle,
     preset |-> preset, ffmpeg_threads |-> extras.ffmpeg_threads,
     output_format |-> extras.output_format, chapters |-> extras.chapters,
     fonts |-> extras.fonts,
     videos |-> extras.formats,
     subtitles |-> << >>, output_presets |-> << >>, command_args |-> << >>,
     ret |-> "none"]

MuxInit ==
    /\ \E n \in 0 .. MaxSubtitles : \E kinds \in [1 .. n -> Locales \X BOOLEAN] :
       \E dst \in Destinations : \E force_hardsub, no_closed_caption \in BOOLEAN :
       \E default_subtitle \in {None} \cup {Some(l) : l \in Locales} :
       \E preset \in Presets : \E extras \in Extras :
         mux = MuxEntered(Given(kinds, extras.formats), dst, force_hardsub,
                          no_closed_caption, default_subtitle, preset, extras)
    /\ SegNotRun
    /\ fs = NotRun
    /\ dl = NotRun
    /\ sub = NotRun
    /\ ch = NotRun
    /\ pg = NotRun
    /\ font = NotRun /\ exe = NotRun /\ intr = NotRun

\* Lines 292-334, for all formats.
MuxStage ==
    /\ mux.pc = "stage"
    /\ mux' = [mux EXCEPT !.pc = "inputs",
                          !.subtitles = Staged(mux.given, mux.no_closed_caption, << >>)]
    /\ UNCHANGED notMux

\* Lines 418-522: `write_ffmpeg_chapters(..)?` and `temp_named_pipe()?` can
\* fail.
MuxInputs ==
    /\ mux.pc = "inputs"
    /\ \/ mux' = [mux EXCEPT !.pc = "done", !.ret = "Err"]
       \/ mux' = [mux EXCEPT !.pc = "default",
                             !.output_presets = mux.preset.output,
                             !.command_args = CommandHead(mux)]
    /\ UNCHANGED notMux

\* Lines 524-596.
MuxDefault ==
    /\ mux.pc = "default"
    /\ mux' = [mux EXCEPT !.pc = "output",
                          !.output_presets = DefaultPresets(mux),
                          !.command_args = @ \o DefaultDisposition(mux)]
    /\ UNCHANGED notMux

\* Lines 598-628.
MuxOutput ==
    /\ mux.pc = "output"
    /\ mux' = [mux EXCEPT
                 !.pc = "done", !.ret = "Ok",
                 !.command_args =
                     @ \o ForcedDispositions(mux.subtitles)
                       \o <<Opt("-pix_fmt"), Opt("yuv420p")>>
                       \o mux.output_presets
                       \o (IF mux.output_format.some
                           THEN <<Opt("-f"), Opt(mux.output_format.v)>> ELSE << >>)
                       \o <<OfPath("", Destination(mux.dst))>>]
    /\ UNCHANGED notMux

MuxNext == MuxStage \/ MuxInputs \/ MuxDefault \/ MuxOutput

SpecMux == MuxInit /\ [][MuxNext]_vars

\* ===================== ffmpeg_progress and the wait of Downloader::download
\* The most lines ffmpeg writes to the status feed.
MaxStatusLines == 2

\* total_frames, and the largest frame number of a status line.
MaxFrames == 2

\* A line of the feed: one with a frame number, one the pattern of line 1277
\* does not match, one it matches with digits that do not parse as u64, and
\* one that next_line cannot read (not UTF-8, or another read error).
StatusLines ==
    [kind : {"frame"}, frame : 1 .. MaxFrames]
        \cup [kind : {"malformed", "overflow", "unreadable"}, frame : {0}]

\* What ffmpeg writes to its piped stderr (line 646), as runs of bytes: a run
\* that is UTF-8 text, and a run that is not.
StderrTexts == {<< >>, <<"valid">>, <<"valid", "invalid", "valid">>}

\* Line 664: String::from_utf8_lossy puts U+FFFD for what is not UTF-8.
from_utf8_lossy(bytes) ==
    [q \in 1 .. Len(bytes) |-> IF bytes[q] = "invalid" THEN "U+FFFD" ELSE bytes[q]]

\* The error download returns: what it is made of and, for the bail! of line
\* 664, its message.
ErrorOf(of, text) == [of |-> of, text |-> text]

\* After line 659: ffmpeg runs and will write `feed` and `stderr`, the monitor
\* task is spawned with a fresh token, download is about to wait.
PgEntered(feed, info, stderr) ==
    [feed |-> feed, written |-> 0, exit |-> "running", stderr |-> stderr,
     main |-> "wait", ret |-> "none", status |-> "none", detail |-> ErrorOf("none", << >>),
     cancelled |-> FALSE, aborted |-> FALSE,
     mon |-> "loop", mon_ret |-> "none", read |-> 0,
     total_frames |-> MaxFrames,
     progress |-> IF info THEN Some(0) ELSE None,
     \* history: the kind of the last line the monitor took from the feed
     last |-> "none"]

PgInit ==
    /\ \E n \in 0 .. MaxStatusLines : \E feed \in [1 .. n -> StatusLines] : \E info \in BOOLEAN :
         \E stderr \in StderrTexts : pg = PgEntered(feed, info, stderr)
    /\ SegNotRun
    /\ fs = NotRun
    /\ dl = NotRun
    /\ sub = NotRun
    /\ ch = NotRun
    /\ mux = NotRun
    /\ font = NotRun /\ exe = NotRun /\ intr = NotRun

\* ffmpeg writes its next status line to the pipe.
FfmpegWrite ==
    /\ pg.exit = "running"
    /\ pg.written < Len(pg.feed)
    /\ pg' = [pg EXCEPT !.written = @ + 1]
    /\ UNCHANGED notPg

\* ffmpeg exits, which closes its end of the pipe.
FfmpegExit ==
    /\ pg.exit = "running"
    /\ pg.written = Len(pg.feed)
    /\ \E status \in {"success", "failure"} : pg' = [pg EXCEPT !.exit = status]
    /\ UNCHANGED notPg

\* p.set_position(n) when there is a progress bar.
set_position(progress, n) == IF progress.some THEN Some(n) ELSE progress

\* Lines 1313-1338: the branch of select! for a line that was read: `line?`,
\* the two `break`, `frame_str.as_str().parse()?` and set_position.
LineRead(m, line) ==
    CASE line.kind \in {"unreadable", "overflow"} ->
             [m EXCEPT !.mon = "done", !.mon_ret = "Err", !.last = line.kind]
      [] line.kind = "malformed" ->
             [m EXCEPT !.mon = "done", !.mon_ret = "Ok", !.last = line.kind]
      [] OTHER ->
             [m EXCEPT !.progress = set_position(m.progress, line.frame),
                       !.last = line.kind]

\* Lines 1313-1338: next_line yields a line.
MonLine ==
    /\ pg.mon = "loop"
    /\ pg.read < pg.written
    /\ pg' = LineRead([pg EXCEPT !.read = @ + 1], pg.feed[pg.read + 1])
    /\ UNCHANGED notPg

\* Lines 1313-1316 and 1342: next_line yields None at the end of the feed, the
\* loop is left and Ok returned.
MonEof ==
    /\ pg.mon = "loop"
    /\ pg.read = pg.written
    /\ pg.exit # "running"
    /\ pg' = [pg EXCEPT !.mon = "done", !.mon_ret = "Ok"]
    /\ UNCHANGED notPg

\* Lines 1302-1312: the branch of select! for the cancelled token.
MonCancelled ==
    /\ pg.mon = "loop"
    /\ pg.cancelled
    /\ pg' = [pg EXCEPT !.mon = "done", !.mon_ret = "Ok",
                        !.progress = set_position(pg.progress, pg.total_frames)]
    /\ UNCHANGED notPg

\* Line 663: the aborted task ends at its await with a JoinError.
MonAborted ==
    /\ pg.mon = "loop"
    /\ pg.aborted
    /\ pg' = [pg EXCEPT !.mon = "done", !.mon_ret = "JoinError"]
    /\ UNCHANGED notPg

\* Line 661: `ffmpeg.wait_with_output()?` fails.
MainWaitErr ==
    /\ pg.main = "wait"
    /\ pg' = [pg EXCEPT !.main = "done", !.ret = "Err", !.detail = ErrorOf("io", << >>)]
    /\ UNCHANGED notPg

MainWaitCancelsOnFailure ==
    /\ pg.main = "wait"
    /\ pg.exit # "running"
    /\ pg' = [pg EXCEPT !.main = "await", !.status = pg.exit, !.cancelled = TRUE]
    /\ UNCHANGED notPg

\* Lines 661-666: ffmpeg has exited and its stderr is read to the end; on
\* failure the task is aborted and the stderr text returned as the error, on
\* success the token is cancelled.
MainWait ==
    /\ pg.main = "wait"
    /\ pg.exit # "running"
    /\ pg' = IF pg.exit = "success"
             THEN [pg EXCEPT !.main = "await", !.status = pg.exit, !.cancelled = TRUE]
             ELSE [pg EXCEPT !.main = "done", !.status = pg.exit, !.ret = "Err",
                             !.detail = ErrorOf("stderr", from_utf8_lossy(pg.stderr)),
                             !.aborted = TRUE]
    /\ UNCHANGED notPg

\* Line 667: `ffmpeg_progress.await?`: a JoinError is returned as an error,
\* otherwise the result of the task is the result of download.
MainAwait ==
    /\ pg.main = "await"
    /\ pg.mon = "done"
    /\ pg' = [pg EXCEPT !.main = "done",
                        !.ret = IF pg.mon_ret = "Ok" THEN "Ok" ELSE "Err",
                        !.detail = IF pg.mon_ret = "Ok" THEN @ ELSE ErrorOf("monitor", << >>)]
    /\ UNCHANGED notPg

PgNext ==
    \/ FfmpegWrite \/ FfmpegExit
    \/ MonLine \/ MonEof \/ MonCancelled \/ MonAborted
    \/ MainWaitErr \/ MainWait \/ MainAwait

SpecProgress == PgInit /\ [][PgNext]_vars

\* ------------------------------------------------------------- scheduling
\* The tokio runtime polls every task that can go on (the lanes are tasks of
\* the join set, the consumer is the caller's task); a request ends within its
\* timeout of 60 s (line 863), and the count mutex is handed on in the order of
\* the waiters.
Fairness ==
    /\ \A l \in 0 .. (MaxLanes - 1) :
         WF_vars(l \in Lanes /\ (Fetch(l) \/ Lock(l) \/ Send(l) \/ Report(l) \/ Exit(l) \/ Cancel(l)))
    /\ WF_vars(Recv \/ RecvClosed \/ JoinNext \/ JoinDone \/ Flush)

SpecFair == Spec /\ Fairness

\* ============================================== Downloader::download_font
\* Lines 778-803, called for one font name after the other (line 401); the
\* font cache directory outlives the calls and the runs of the program.
\* The most calls of download_font followed.
MaxFontCalls == 2

\* Lines 1018-1105, the first entries: (font name, file of the font).
FONTS == <<<<"Arial", "arial.woff2">>, <<"Arial Black", "ariblk.woff2">>>>

\* Font names asked for: two of the catalog and one that differs from a
\* catalog name in case only.
FontNames == {"Arial", "Arial Black", "arial"}

\* Line 779: `FONTS.iter().find(|(f, _)| f == &name)`, as the index of the first
\* entry of that name, 0 for None.
find(name) ==
    IF \E q \in 1 .. Len(FONTS) : FONTS[q][1] = name
    THEN CHOOSE q \in 1 .. Len(FONTS) :
             /\ FONTS[q][1] = name
             /\ \A r \in 1 .. (q - 1) : FONTS[r][1] # name
    ELSE 0

\* What download_font returns: Ok(None), Ok(Some((file, cached))) or an error.
FontRet(kind, file, cached) == [kind |-> kind, file |-> file, cached |-> cached]

\* download_font has returned ret: the call is put down with what it was called
\* with and what it found and left (read by the properties only).
FontReturn(f, ret) ==
    [f EXCEPT !.pc = "idle",
              !.log = Append(@, [name |-> f.name, ret |-> ret, before |-> f.before,
                                 after |-> [cache |-> f.cache, fetches |-> f.fetches,
                                            writes |-> f.writes]])]

FontInit ==
    /\ \E cache \in SUBSET {FONTS[q][2] : q \in 1 .. Len(FONTS)} :
         font = [pc |-> "idle", calls |-> 0, cache |-> cache, fetches |-> 0, writes |-> 0,
                 name |-> "", file |-> "",
                 before |-> [cache |-> cache, fetches |-> 0, writes |-> 0],
                 log |-> << >>]
    /\ SegNotRun
    /\ fs = NotRun
    /\ dl = NotRun
    /\ sub = NotRun
    /\ ch = NotRun
    /\ mux = NotRun
    /\ pg = NotRun
    /\ exe = NotRun /\ intr = NotRun

\* Lines 778-787: the call up to its first await: the catalog, the cache
\* directory (`cache_dir("fonts")?`) and `file.exists()`.
FontCall ==
    /\ font.pc = "idle"
    /\ font.calls < MaxFontCalls
    /\ \E name \in FontNames : \E dir_ok \in BOOLEAN :
         LET q == find(name)
             file == IF q = 0 THEN "" ELSE FONTS[q][2]
             f == [font EXCEPT !.calls = @ + 1, !.name = name, !.file = file,
                               !.before = [cache |-> font.cache, fetches |-> font.fetches,
                                           writes |-> font.writes]]
         IN  font' = IF q = 0 THEN FontReturn(f, FontRet("None", "", FALSE))
                     ELSE IF ~dir_ok THEN FontReturn(f, FontRet("Err", "", FALSE))
                     ELSE IF file \in font.cache THEN FontReturn(f, FontRet("Some", file, TRUE))
                     ELSE [f EXCEPT !.pc = "fetch"]
    /\ UNCHANGED notFont

\* Lines 790-799: the request is sent and the body read; `?` returns an error
\* of either.
FontFetch ==
    /\ font.pc = "fetch"
    /\ \E ok \in BOOLEAN :
         LET f == [font EXCEPT !.fetches = @ + 1]
         IN  font' = IF ok THEN [f EXCEPT !.pc = "write"]
                     ELSE FontReturn(f, FontRet("Err", "", FALSE))
    /\ UNCHANGED notFont

NotPersisted(cache, file, outcome) == cache

\* Line 800: what the cache holds after `fs::write(&file, font)`: the file when
\* the write succeeded, and also when it failed after the file was created.
Persisted(cache, file, outcome) ==
    IF outcome \in {"written", "partial"} THEN cache \cup {file} ELSE cache

\* Lines 800-802.
FontWrite ==
    /\ font.pc = "write"
    /\ \E outcome \in {"written", "partial", "failed"} :
         LET f == [font EXCEPT !.writes = @ + 1,
                               !.cache = Persisted(font.cache, font.file, outcome)]
         IN  font' = IF outcome = "written"
                     THEN FontReturn(f, FontRet("Some", font.file, FALSE))
                     ELSE FontReturn(f, FontRet("Err", "", FALSE))
    /\ UNCHANGED notFont

FontNext == FontCall \/ FontFetch \/ FontWrite

SpecFont == FontInit /\ [][FontNext]_vars

\* ================================================ lib.rs: execute_executor
\* Lines 196-220, and the end of cli_entrypoint it returns to (lines 180-190).
\* What Execute::execute returns: Ok, an error that is no CrunchyrollError, or
\* a CrunchyrollError of one of its five kinds whose message has or has not
\* the text "content.get_video_streams_v2.cms_service_error".
ExecuteResults ==
    [kind : {"Ok", "Other"}, rate_limit : {FALSE}]
        \cup [kind : {"Internal", "Request", "Decode", "Authentication", "Input"},
              rate_limit : BOOLEAN]

\* A record written with error!: its text and the error it shows.
Logged(text, err) == [text |-> text, err |-> err]

ExeInit ==
    /\ \E command \in {"archive", "download", "login"} :
       \E pre \in {"Ok", "Err"} : \E run \in ExecuteResults :
         exe = [pc |-> "pre_check", command |-> command, pre |-> pre, run |-> run,
                err |-> "none", log |-> << >>, status |-> -1]
    /\ SegNotRun
    /\ fs = NotRun
    /\ dl = NotRun
    /\ sub = NotRun
    /\ ch = NotRun
    /\ mux = NotRun
    /\ pg = NotRun
    /\ font = NotRun /\ intr = NotRun

\* Lines 197-200: `executor.pre_check()`; its error is logged.
ExePreCheck ==
    /\ exe.pc = "pre_check"
    /\ exe' = IF exe.pre = "Err"
              THEN [exe EXCEPT !.pc = "exit", !.err = "pre_check",
                               !.log = Append(@, Logged("Misconfigurations detected", "pre_check"))]
              ELSE [exe EXCEPT !.pc = "execute"]
    /\ UNCHANGED notExe

ExeExecuteDropsError ==
    /\ exe.pc = "execute"
    /\ exe' = IF exe.run.kind = "Ok"
              THEN [exe EXCEPT !.pc = "returned"]
              ELSE [exe EXCEPT !.pc = "returned", !.err = "execute"]
    /\ UNCHANGED notExe

\* Lines 202-203: `executor.execute(ctx).await`; its error is logged.
ExeExecute ==
    /\ exe.pc = "execute"
    /\ exe' = IF exe.run.kind = "Ok"
              THEN [exe EXCEPT !.pc = "returned"]
              ELSE [exe EXCEPT !.pc = "downcast", !.err = "execute",
                               !.log = Append(@, Logged("a unexpected error occurred", "execute"))]
    /\ UNCHANGED notExe

\* Lines 205-216: the hint for a CrunchyrollError whose message names the
\* rate limit.
ExeHint ==
    /\ exe.pc = "downcast"
    /\ exe' = IF exe.run.kind # "Other" /\ exe.run.rate_limit
              THEN [exe EXCEPT !.pc = "exit",
                               !.log = Append(@, Logged("You've probably hit a rate limit", "hint"))]
              ELSE [exe EXCEPT !.pc = "exit"]
    /\ UNCHANGED notExe

\* Lines 199 and 218: std::process::exit(1).
ExeExit ==
    /\ exe.pc = "exit"
    /\ exe' = [exe EXCEPT !.pc = "ended", !.status = 1]
    /\ UNCHANGED notExe

\* Lines 180-190: execute_executor returns, cli_entrypoint returns, and the
\* process ends with status 0.
ExeReturn ==
    /\ exe.pc = "returned"
    /\ exe' = [exe EXCEPT !.pc = "ended", !.status = 0]
    /\ UNCHANGED notExe

ExeNext == ExePreCheck \/ ExeExecute \/ ExeHint \/ ExeExit \/ ExeReturn

SpecExecutor == ExeInit /\ [][ExeNext]_vars

\* =================================== lib.rs: the ctrl-c handler (151-178)
\* The handler runs on the thread of the ctrlc crate while the command goes on
\* on the runtime: Downloader::download makes its temporary files one after
\* the other (download.rs lines 347, 505, 738, 752, 766).
\* The most temporary files the command makes.
MaxTempFiles == 2

\* A file name, as the parts it is put together from. The n-th temporary file
\* of the command: the prefix, then what tells it from the others.
TempName(n) == <<".crunchy-cli_", n>>

\* Lines 155-161: `.starts_with(".crunchy-cli_")`.
StartsWithPrefix(name) == name[1] = ".crunchy-cli_"

\* The files of the temp directory, in the order read_dir yields them (any one).
RECURSIVE Listing(_)
Listing(files) ==
    IF files = {} THEN << >>
    ELSE LET f == CHOOSE f \in files : TRUE
         IN  <<f>> \o Listing(files \ {f})

\* The handler is installed (line 178) and the command is about to run; the
\* temp directory holds a file of somebody else and maybe a file a killed run
\* has left.
IntrInit ==
    /\ \E stale \in SUBSET {<<".crunchy-cli_", 0>>} :
         intr = [files |-> {<<"other.tmp">>} \cup stale,
                 task |-> "running", made |-> 0,
                 handler |-> "idle", listing |-> << >>,
                 interrupted |-> FALSE, status |-> -1]
    /\ SegNotRun
    /\ fs = NotRun
    /\ dl = NotRun
    /\ sub = NotRun
    /\ ch = NotRun
    /\ mux = NotRun
    /\ pg = NotRun
    /\ font = NotRun /\ exe = NotRun

\* The command makes its next temporary file.
TaskCreate ==
    /\ intr.status = -1
    /\ intr.task = "running"
    /\ intr.made < MaxTempFiles
    /\ intr' = [intr EXCEPT !.made = @ + 1, !.files = @ \cup {TempName(intr.made + 1)}]
    /\ UNCHANGED notIntr

\* The command returns, which drops its temporary files (a TempPath removes
\* its file when dropped), and the process ends: with 0 after Ok, by the
\* exit(1) of line 218 after an error.
TaskReturn ==
    /\ intr.status = -1
    /\ intr.task = "running"
    /\ \E ok \in BOOLEAN :
         intr' = [intr EXCEPT !.task = "returned",
                              !.files = @ \ {TempName(n) : n \in 1 .. intr.made},
                              !.status = IF ok THEN 0 ELSE 1]
    /\ UNCHANGED notIntr

\* Ctrl-c: the handler is called (line 151).
Interrupt ==
    /\ intr.status = -1
    /\ intr.handler = "idle"
    /\ intr' = [intr EXCEPT !.handler = "read_dir", !.interrupted = TRUE]
    /\ UNCHANGED notIntr

\* Line 153: `if let Ok(dir) = fs::read_dir(&env::temp_dir())`.
HandlerReadDir ==
    /\ intr.status = -1
    /\ intr.handler = "read_dir"
    /\ \E ok \in BOOLEAN :
         intr' = IF ok
                 THEN [intr EXCEPT !.handler = "sweep", !.listing = Listing(intr.files)]
                 ELSE [intr EXCEPT !.handler = "exit"]
    /\ UNCHANGED notIntr

\* Lines 154-173: one entry of the directory: a file of the prefix is removed,
\* and whether that worked is logged only.
HandlerRemove ==
    /\ intr.status = -1
    /\ intr.handler = "sweep"
    /\ intr.listing # << >>
    /\ \E ok \in BOOLEAN :
         LET file == Head(intr.listing)
         IN  intr' = [intr EXCEPT !.listing = Tail(@),
                                  !.files = IF StartsWithPrefix(file) /\ ok
                                            THEN @ \ {file} ELSE @]
    /\ UNCHANGED notIntr

\* Line 176: std::process::exit(1), after the loop or when read_dir failed.
HandlerExit ==
    /\ intr.status = -1
    /\ \/ intr.handler = "exit"
       \/ intr.handler = "sweep" /\ intr.listing = << >>
    /\ intr' = [intr EXCEPT !.handler = "done", !.status = 1]
    /\ UNCHANGED notIntr

IntrNext ==
    \/ TaskCreate \/ TaskReturn
    \/ Interrupt \/ HandlerReadDir \/ HandlerRemove \/ HandlerExit

SpecInterrupt == IntrInit /\ [][IntrNext]_vars

\* ============================================================== properties
LaneErrKinds == {"MaxRetry", "Decrypt", "Build"}

\* The lane's download closure ended with an error.
Failed(l) == lres[l].kind \in LaneErrKinds

\* What the retry loop of a fresh segment ends in, for every run of failing
\* requests up to 7 and both outcomes of decrypt.
LoopOutcome == [f \in 0 .. 7, d \in BOOLEAN |-> RetryLoop(0, 0, f, d)]

\* The lane's failure marker entered the channel.
InMarked(l) == \E j \in 1 .. Len(marked) : marked[j] = l

\* C1: when download_segments returns Ok, the sink holds exactly the payloads of
\* segments 0..N-1 concatenated in ascending index order, for every segment
\* count, lane count and arrival order.
C1_OrderedOutput == (result = OkResult) => (sink = Concat(UpTo(total_segments)))

\* A successful return after some segment arrived ahead of its turn.
C1_Witness ==
    /\ result = OkResult
    /\ reordered
    /\ total_segments >= 3
    /\ cpus >= 2

\* C2: as long as no write_all has failed, the sink is the in-order concatenation
\* of segments 0..data_pos-1: each index written once, none before the smaller
\* ones.  (The step in which a write fails is the step that returns.)
C2_SinkIsPrefix ==
    (result.kind # "Io") =>
        /\ data_pos <= total_segments
        /\ sink = Concat(UpTo(data_pos))

\* The consumer is mid-stream: something is written and a later segment is held.
C2_Witness ==
    /\ cpc = "recv"
    /\ data_pos >= 1
    /\ DOMAIN buf # {}

\* C3: if any lane ended with an error, download_segments does not return Ok.
C3_FailureNeverOk == (\E l \in Lanes : Failed(l)) => (result # OkResult)

\* One lane failed, another delivered all its segments, and the call returned
\* the lane's error.
C3_Witness ==
    /\ Returned
    /\ result.kind \in LaneErrKinds
    /\ \E l, m \in Lanes : Failed(l) /\ lres[m] = OkResult /\ Len(segs[m]) > 0

\* C4: once the consumer has received a failure marker, the sink never changes.
C4_NoWriteAfterMarker == [][marker_seen => sink' = sink]_vars

\* The marker was received after bytes were written and while a segment was
\* still queued behind it.
C4_Witness ==
    /\ marker_seen
    /\ cpc = "join"
    /\ Len(sink) > 0
    /\ \E j \in 1 .. Len(chan) : chan[j][1] >= 0

\* C5, as claimed: when download_segments returns after a failure marker, every
\* lane has terminated.  (A lane whose closure has ended and whose task is only
\* about to return is counted as terminated here.)
C5_AllLanesTerminatedAtReturn ==
    (Returned /\ marker_seen) => \A l \in Lanes : lpc[l] \in {"exit", "done", "cancelled"}

\* C5, amended: when download_segments returns after a failure marker, a lane
\* that ended with an error has completed and is the task the join set yielded
\* last, and every task that completed before it was joined and had ended Ok.
C5_ReturnsAtFirstJoinedError ==
    (Returned /\ marker_seen) =>
        /\ joined < Len(finished)
        /\ lpc[finished[joined + 1]] = "done"
        /\ Failed(finished[joined + 1])
        /\ \A j \in 1 .. joined : lres[finished[j]] = OkResult

\* The call has just returned after a marker while a lane was still at work.
C5_Witness ==
    /\ Returned
    /\ marker_seen
    /\ \E l \in Lanes : lpc[l] \in {"fetch", "lock", "send"}

\* C6, as claimed: the error returned is the error of the lane whose failure
\* marker was sent first.
C6_FirstMarkedLaneError ==
    (Returned /\ marked # << >> /\ result.kind # "Io") => (result = lres[marked[1]])

\* C6, amended: the error returned is the error of the failed lane whose task
\* completed first.
C6_FirstCompletedLaneError ==
    (Returned /\ marked # << >> /\ result.kind # "Io") =>
        \E j \in 1 .. Len(finished) :
            /\ Failed(finished[j])
            /\ \A i \in 1 .. (j - 1) : ~Failed(finished[i])
            /\ result = lres[finished[j]]

\* Two lanes failed and the error returned is that of the lane whose marker was
\* sent second.
C6_Witness ==
    /\ Returned
    /\ Len(marked) >= 2
    /\ result = lres[marked[2]]
    /\ result # lres[marked[1]]

\* C7: if a lane failed on segment index k, the sink holds no byte of a segment
\* with index >= k and the call does not return Ok; when that lane exhausted its
\* retries and nothing else failed, the error returned is its fetch error.
C7_NothingPastFailure ==
    \A l \in Lanes :
        Failed(l) =>
            /\ \A j \in 1 .. Len(sink) : sink[j] < lres[l].seg
            /\ Returned => result.kind # "Ok"
            /\ (/\ Returned
                /\ lres[l].kind = "MaxRetry"
                /\ result.kind # "Io"
                /\ \A m \in Lanes \ {l} : ~Failed(m)) => (result = lres[l])

\* The scenario at the model's size: 3 segments, 2 lanes, lane 0 exhausts its
\* retries on index 2 after lane 1 delivered index 1; segments 0 and 1 are in
\* the sink and the fetch error is returned.
C7_Witness ==
    /\ Returned
    /\ total_segments = 3
    /\ cpus = 2
    /\ lres[0] = Err("MaxRetry", 2)
    /\ lres[1] = OkResult
    /\ result = lres[0]
    /\ sink = Concat(<<0, 1>>)

\* C8: a segment whose requests fail f times in a row is requested f + 1 times
\* when f <= 5 and 6 times otherwise; the lane fails with the retry error
\* exactly when the first attempt and all 5 retries fail; and a lane that failed
\* so made 6 attempts for the segment it failed on, whichever segment of the
\* lane that is.
C8_RetryBudget ==
    /\ \A f \in 0 .. 7, d \in BOOLEAN :
          LET out == LoopOutcome[f, d]
          IN  /\ out.att = (IF f <= 5 THEN f + 1 ELSE 6)
              /\ out.retry_count = out.att - 1
              /\ (out.r = "bail") <=> (f >= 6)
    /\ \A l \in Lanes :
          /\ fail_att[l] <= 6
          /\ (lres[l].kind = "MaxRetry") => (fail_att[l] = 6)

\* A lane delivered its first segment and then used up the whole budget on its
\* second one.
C8_Witness ==
    \E l \in Lanes :
        /\ lres[l].kind = "MaxRetry"
        /\ li[l] >= 1
        /\ fail_att[l] = 6

\* C9, as claimed: no segment is requested more than 5 times.
C9_AtMostFiveAttempts == \A l \in Lanes : fail_att[l] <= 5

\* C9, amended: no segment is requested more than 6 times (the first attempt and
\* 5 retries); a lane that fails with the retry error has made exactly 6 and
\* makes no further request.
C9_AtMostSixAttempts ==
    /\ \A f \in 0 .. 7, d \in BOOLEAN : LoopOutcome[f, d].att <= 6
    /\ \A l \in Lanes :
          /\ fail_att[l] <= 6
          /\ (lres[l].kind = "MaxRetry") =>
                /\ fail_att[l] = 6
                /\ lpc[l] \in {"report", "exit", "done", "cancelled"}

\* A lane whose task has ended with the retry error after 6 attempts.
C9_Witness ==
    \E l \in Lanes :
        /\ lres[l].kind = "MaxRetry"
        /\ fail_att[l] = 6
        /\ lpc[l] = "done"

\* C10: a lane that saw decrypt fail ends with the decrypt error for that
\* segment, never requests it (or anything) again, and sends the failure marker
\* before its task ends, whatever number of retries it had left.
C10_DecryptFatal ==
    \A l \in Lanes :
        decrypt_failed[l] =>
            /\ lres[l] = Err("Decrypt", CurIndex(l))
            /\ lpc[l] \in {"report", "exit", "done", "cancelled"}
            /\ (lpc[l] \in {"exit", "done"}) => InMarked(l)

\* A lane whose second request brought a body that did not decrypt (4 retries
\* left) has sent its marker and ended.
C10_Witness ==
    \E l \in Lanes :
        /\ decrypt_failed[l]
        /\ fail_att[l] = 2
        /\ lpc[l] = "done"
        /\ InMarked(l)

\* C13: for a stream with zero segments download_segments is never stuck, and
\* when it has returned it has returned Ok with nothing written to the sink,
\* for every lane count.
C13_ZeroSegmentsOk ==
    (total_segments = 0) =>
        /\ sink = << >>
        /\ Returned => result = OkResult
        /\ ~Returned => ENABLED Next

\* The call returned Ok for an empty stream with more than one lane, after every
\* (idle) lane was joined.
C13_Witness ==
    /\ total_segments = 0
    /\ cpus >= 2
    /\ joined = cpus
    /\ result = OkResult
    /\ sink = << >>

\* C14, as claimed: when the temp directory and the destination are detected to
\* be on the same filesystem, a shortage is reported for a path whenever its
\* available space is less than twice the estimate.
C14_RequirementDoubled ==
    (fs.pc = "done" /\ fs.ret.kind = "Ok" /\ SamePartition(fs.tmp_stat, fs.dst_stat)) =>
        LET est == fs.estimated_required_space
        IN  /\ (fs.tmp_stat.available_space < 2 * est) => fs.ret.tmp_required.some
            /\ (DstChecked(fs.dst) /\ fs.dst_stat.available_space < 2 * est)
                   => fs.ret.dst_required.some

C17_SpecialSinkExempt ==
    (fs.pc # "none" /\ (fs.dst.is_special_file \/ fs.dst.is_stdout)) =>
        /\ ~fs.ret.dst_required.some
        /\ (fs.pc = "done" /\ fs.ret.kind = "Ok") =>
               (fs.ret.tmp_required.some <=> (fs.tmp_space < fs.estimated_required_space))

\* A special file as destination with too little space on both sides: only the
\* temp side is reported.
C17_Witness ==
    /\ fs.pc = "done"
    /\ fs.ret.kind = "Ok"
    /\ fs.dst.is_special_file
    /\ ~fs.dst.is_stdout
    /\ fs.dst_space < fs.estimated_required_space
    /\ fs.ret.tmp_required.some
    /\ ~fs.ret.dst_required.some

\* C11: once the download of a video, audio or subtitle stream of any format
\* has failed, download has returned that stream's error, ffmpeg was not
\* spawned, and the failed download is the last one that was started.
C11_StreamFailureAborts ==
    (dl.pc # "none" /\ dl.failed.some) =>
        /\ dl.pc = "done"
        /\ dl.ret = [kind |-> "Err", at |-> dl.failed.v]
        /\ ~dl.spawned
        /\ dl.downloads[Len(dl.downloads)] = dl.failed.v

\* The subtitle of the first of two formats failed after its video and audio
\* were staged: download returned its error and the second format was not
\* touched.
C11_Witness ==
    /\ dl.pc = "done"
    /\ Len(dl.formats) = 2
    /\ dl.failed = Some(<<"subtitle", 0, 0>>)
    /\ dl.downloads = <<(<<"video", 0, 0>>), (<<"audio", 0, 0>>), (<<"subtitle", 0, 0>>)>>
    /\ ~dl.spawned

\* C12, as claimed: when every format has zero audios and zero subtitles,
\* download does not end in the computation of fmt_space, between the preflight
\* and the first video.
C12_NoTracksIsValid ==
    (/\ dl.pc = "done"
     /\ Len(dl.formats) >= 1
     /\ \A j \in 1 .. Len(dl.formats) :
            dl.formats[j].audios = 0 /\ dl.formats[j].subtitles = 0)
        => (dl.ret.at # <<"fmt_space">>)

\* C16: when check_free_space has reported a shortage on either side or has
\* returned an error, download has logged the warnings of the shortages (none
\* for an error), has not returned from the preflight, and is past it.
C16_PreflightNeverAborts ==
    (dl.pc # "none" /\ dl.preflight.kind \in {"Ok", "Err"}) =>
        /\ dl.pc # "preflight"
        /\ dl.ret.at # <<"check_free_space">>
        /\ dl.warned = (IF dl.preflight.tmp_required.some THEN <<"tmp">> ELSE << >>) \o
                       (IF dl.preflight.dst_required.some THEN <<"dst">> ELSE << >>)
        /\ (dl.preflight.kind = "Err") => (dl.required = <<None, None>>)

\* After a preflight that returned an error, download went through the fetch
\* phase and the ffmpeg run and returned Ok.
C16_Witness ==
    /\ dl.pc = "done"
    /\ dl.preflight.kind = "Err"
    /\ dl.downloads # << >>
    /\ dl.spawned
    /\ dl.ret.kind = "Ok"

\* The dialogue lines of a document, top to bottom.
DialogueLines(doc) ==
    LET ps == DialoguePositions(doc, 1) IN [j \in 1 .. Len(ps) |-> doc[ps[j]]]

\* The time a timestamp denotes, in hundredths of a second.
StampTime(t) == (t[1] * 100) + t[2]

\* C18, as claimed: in the document fix_subtitles leaves, the start times of the
\* dialogue lines are non-decreasing from top to bottom, and dialogue lines
\* with equal start time are in their original relative order.
C18_DialogueChronological ==
    (sub.pc = "done") =>
        LET ds == DialogueLines(sub.raw)
        IN  \A j \in 1 .. (Len(ds) - 1) :
                \/ StampTime(ds[j].start) < StampTime(ds[j + 1].start)
                \/ /\ StampTime(ds[j].start) = StampTime(ds[j + 1].start)
                   /\ ds[j].id < ds[j + 1].id

\* C19: after the swaps every element of as_lines that was not a dialogue line
\* is where it was and as it was, the script-info header with the directive
\* appended; the positions that hold dialogue lines are the same; and the
\* document written back is the original with each dialogue position holding
\* one of the (rewritten) dialogue lines and the directive after each header.
C19_OnlyDialogueMoves ==
    (sub.pc \in {"join", "done"}) =>
        /\ Len(sub.as_lines) = Len(sub.input)
        /\ \A p \in 1 .. Len(sub.input) :
              IF IsDialogue(sub.input[p])
              THEN /\ Len(sub.as_lines[p]) = 1
                   /\ IsDialogue(sub.as_lines[p][1])
              ELSE sub.as_lines[p] =
                       (IF IsScriptInfo(sub.input[p]) THEN <<sub.input[p], Directive>>
                        ELSE <<sub.input[p]>>)
        /\ (sub.pc = "done") => (sub.raw = Join(sub.as_lines))

\* The header between dialogue lines of which fix_subtitles has exchanged the
\* one above it with one below it: the header is in place, with the directive.
C19_Witness ==
    /\ sub.pc = "done"
    /\ \E p, q, r \in 1 .. Len(sub.input) :
          /\ p < q /\ q < r
          /\ IsDialogue(sub.input[p])
          /\ IsScriptInfo(sub.input[q])
          /\ IsDialogue(sub.input[r])
          /\ sub.as_lines[p][1].id = r
          /\ sub.as_lines[r][1].id = p
          /\ sub.as_lines[q] = <<Info, Directive>>

\* C20, as claimed: applying fix_subtitles again, with the same max_length, to
\* the document it has left gives that document.
C20_Idempotent ==
    (sub.pc = "done") => (FixSubtitles(sub.raw, sub.max_length) = sub.raw)

\* The dialogue line of the document fix_subtitles has left that carries the
\* text of the input line at position p.
Repaired(p) == CHOOSE l \in {sub.raw[q] : q \in 1 .. Len(sub.raw)} : IsDialogue(l) /\ l.id = p

\* max_length in hundredths of a second.
MaxStamp == sub.max_length \div NanosPerCenti

\* C21, as claimed: a dialogue line whose start or end is after max_length ends
\* at max_length in the repaired document, and starts at max_length when its
\* start was after it.  (The timestamps are taken as the function reads them;
\* C22 is about what they denote.)
C21_EitherExceedsClipsEnd ==
    (sub.pc = "done") =>
        \A p \in 1 .. Len(sub.input) :
            LET l == sub.input[p]
            IN  (/\ IsDialogue(l)
                 /\ (ParseTime(l.start) > sub.max_length \/ ParseTime(l.end) > sub.max_length)) =>
                    /\ Repaired(p).end = format_naive_time(sub.max_length)
                    /\ (ParseTime(l.start) > sub.max_length)
                           => (Repaired(p).start = format_naive_time(sub.max_length))

\* C22, as claimed: a dialogue line whose end is after max_length ends at
\* max_length in the repaired document, and a dialogue line whose start and end
\* are both within max_length is in the repaired document as it was.
C22_EndClippedElseUnchanged ==
    (sub.pc = "done") =>
        \A p \in 1 .. Len(sub.input) :
            LET l == sub.input[p]
            IN  IsDialogue(l) =>
                    /\ (StampTime(l.end) > MaxStamp) => (StampTime(Repaired(p).end) = MaxStamp)
                    /\ (StampTime(l.start) <= MaxStamp /\ StampTime(l.end) <= MaxStamp)
                           => (Repaired(p) = l)

\* The call of the chapter example: the single event Intro[10,40], a video of
\* 100 seconds, and the function has returned Ok.
ChapterExampleDone ==
    /\ ch.pc = "done"
    /\ ch.ret = "Ok"
    /\ ch.input = <<Chapter("Intro", 10, 40)>>
    /\ ch.video_len = 100

\* C23, as claimed: for the event Intro[10,40] and a video of 100 seconds the
\* file holds exactly the chapters Episode[0,10], Intro[10,40], Episode[40,100].
C23_ExampleWithLeadingFiller ==
    ChapterExampleDone =>
        ch.file = <<Chapter("Episode", 0, 10), Chapter("Intro", 10, 40),
                    Chapter("Episode", 40, 100)>>

\* C23, amended: for the event Intro[10,40] and a video of 100 seconds the file
\* holds exactly the chapters Intro[10,40], Episode[40,100]: the gap of 10
\* seconds before the intro is not more than 10 seconds and gets no chapter.
C23_ExampleChapters ==
    ChapterExampleDone =>
        ch.file = <<Chapter("Intro", 10, 40), Chapter("Episode", 40, 100)>>

C23_Witness ==
    /\ ChapterExampleDone
    /\ Len(ch.file) = 2

IsFiller(c) == c.title = "Episode"

\* The end of the event chapter nearest before position q of the file, 0 when
\* there is none.
RECURSIVE PreviousEnd(_, _)
PreviousEnd(file, q) ==
    IF q <= 1 THEN 0
    ELSE IF ~IsFiller(file[q - 1]) THEN file[q - 1].end
    ELSE PreviousEnd(file, q - 1)

EventChapters(file) == SelectSeq(file, LAMBDA c : ~IsFiller(c))

\* C24: after write_ffmpeg_chapters returned Ok, the chapters that are not
\* fillers are the events, one each, in ascending order of start; an event is
\* preceded by the filler Episode[previous end (0 at first), its start] exactly
\* when its start is more than 10 seconds after the previous end; and the file
\* ends with the filler Episode[last end, video length] exactly when the video
\* length is more than 10 seconds after the last end. There is no other filler.
C24_ChaptersAndFillers ==
    (ch.pc = "done" /\ ch.ret = "Ok") =>
        LET file == ch.file
            evs == EventChapters(file)
            n == Len(file)
            last_end == PreviousEnd(file, n + 1)
        IN  /\ Len(evs) = Len(ch.input)
            /\ {evs[q] : q \in 1 .. Len(evs)} = {ch.input[q] : q \in 1 .. Len(ch.input)}
            /\ \A q \in 1 .. Len(evs) - 1 : evs[q].start <= evs[q + 1].start
            /\ \A q \in 1 .. n :
                  ~IsFiller(file[q]) =>
                      LET prev == PreviousEnd(file, q)
                      IN  IF file[q].start - prev > 10
                          THEN q > 1 /\ file[q - 1] = Chapter("Episode", prev, file[q].start)
                          ELSE q = 1 \/ ~IsFiller(file[q - 1])
            /\ \A q \in 1 .. n - 1 : IsFiller(file[q]) => ~IsFiller(file[q + 1])
            /\ IF ch.video_len - last_end > 10
               THEN n > 0 /\ file[n] = Chapter("Episode", last_end, ch.video_len)
               ELSE n = 0 \/ ~IsFiller(file[n])

\* Two events given out of order, each with a filler before it, and a trailing
\* filler.
C24_Witness ==
    /\ ch.pc = "done"
    /\ ch.ret = "Ok"
    /\ Len(ch.input) = 2
    /\ ch.input[1].start > ch.input[2].start
    /\ Len(ch.file) = 5

\* The subtitle of the default locale is burned into the video: a default
\* subtitle is chosen and staged, and the container takes no soft subtitles.
BurnedIn ==
    /\ mux.pc = "done"
    /\ mux.ret = "Ok"
    /\ mux.default_subtitle.some
    /\ \E q \in 1 .. Len(mux.subtitles) : mux.subtitles[q].language = mux.default_subtitle.v
    /\ (mux.force_hardsub \/ extension(mux.dst) \notin {"mkv", "mov", "mp4"})

IsCopyPair(args, q) ==
    /\ q < Len(args)
    /\ args[q].text \in {"-c:v", "-c:a"}
    /\ args[q + 1].text = "copy"

\* b is a with some elements left out, the others in their order.
RECURSIVE IsSubsequence(_, _)
IsSubsequence(b, a) ==
    IF b = << >> THEN TRUE
    ELSE IF a = << >> THEN FALSE
    ELSE IF Head(a) = Head(b) THEN IsSubsequence(Tail(b), Tail(a))
    ELSE IsSubsequence(b, Tail(a))

\* The arguments of the command line between `-pix_fmt yuv420p` and the burn-in
\* filter: what is left of the output presets.
PresetsPassed ==
    LET args == mux.command_args
        from == CHOOSE q \in 1 .. Len(args) : args[q].text = "yuv420p"
        to == CHOOSE q \in 1 .. Len(args) : args[q].text = "-vf"
    IN  SubSeq(args, from + 1, to - 1)

\* C25, as claimed: when the default subtitle is burned in, the output preset
\* arguments on the command line hold no '-c:v' or '-c:a' immediately followed
\* by 'copy', and they are the given preset arguments with only stream-copy
\* pairs left out, in their order.
C25_NoStreamCopyWhenBurnedIn ==
    BurnedIn =>
        /\ \A q \in 1 .. Len(PresetsPassed) : ~IsCopyPair(PresetsPassed, q)
        /\ IsSubsequence(PresetsPassed, mux.preset.output)
        /\ Len(PresetsPassed) =
               Len(mux.preset.output)
                   - (2 * Cardinality({q \in 1 .. Len(mux.preset.output) :
                                          IsCopyPair(mux.preset.output, q)}))

MuxDone == mux.pc = "done" /\ mux.ret = "Ok"

\* The positions of the command line where `flag` is immediately followed by
\* `value`.
PairsAt(flag, value) ==
    {q \in 1 .. Len(mux.command_args) - 1 :
        mux.command_args[q].text = flag /\ mux.command_args[q + 1].text = value}

\* The files given with `-i`, in their order.
InputFiles ==
    LET args == mux.command_args
        at == SelectSeq([q \in 1 .. Len(args) |-> q],
                        LAMBDA q : q > 1 /\ args[q - 1].text = "-i")
    IN  [q \in 1 .. Len(at) |-> args[at[q]].path]

\* Soft subtitles are used and the default locale is among the staged ones.
SoftSubsWithDefault ==
    /\ MuxDone
    /\ ~mux.force_hardsub
    /\ extension(mux.dst) \in {"mkv", "mov", "mp4"}
    /\ mux.default_subtitle.some
    /\ \E q \in 1 .. Len(mux.subtitles) : mux.subtitles[q].language = mux.default_subtitle.v

\* C26: when soft subtitles are used and the default locale is among the staged
\* subtitles, exactly one subtitle stream gets the disposition 'default', the
\* one of the first staged subtitle of that locale (the stream is the input of
\* that subtitle's file); for mov and mp4 the command line has `-c:s mov_text`
\* and `-movflags faststart`; and it has no burn-in filter.
C26_SoftSubsDefaultDisposition ==
    SoftSubsWithDefault =>
        LET first == CHOOSE q \in 1 .. Len(mux.subtitles) :
                         /\ mux.subtitles[q].language = mux.default_subtitle.v
                         /\ \A r \in 1 .. q - 1 :
                                mux.subtitles[r].language # mux.default_subtitle.v
            defaults == PairsAt("-disposition:s:s:", "default")
        IN  /\ Cardinality(defaults) = 1
            /\ \A q \in defaults :
                  /\ mux.command_args[q].n = first - 1
                  /\ InputFiles[(2 * mux.videos) + mux.command_args[q].n + 1]
                         = mux.subtitles[first].path
            /\ (extension(mux.dst) \in {"mov", "mp4"}) =>
                   /\ PairsAt("-c:s", "mov_text") # {}
                   /\ PairsAt("-movflags", "faststart") # {}
            /\ \A q \in 1 .. Len(mux.command_args) :
                   mux.command_args[q].text \notin {"-vf", "ass="}

\* Two staged subtitles of the default locale, in an mp4 file.
C26_Witness ==
    /\ SoftSubsWithDefault
    /\ extension(mux.dst) = "mp4"
    /\ Len(mux.subtitles) = 2
    /\ \A q \in 1 .. 2 : mux.subtitles[q].language = mux.default_subtitle.v

\* The given subtitles that are staged: all, or those that are not closed
\* captions when closed captions are excluded.
Kept ==
    SelectSeq(mux.given, LAMBDA s : s.not_cc \/ ~mux.no_closed_caption)

\* The staged subtitle q has the disposition 'forced'.
Forced(q) ==
    \E a \in PairsAt("-disposition:s:s:", "forced") : mux.command_args[a].n = q - 1

\* Closed captions are excluded: none is staged and none is an input.
NoClosedCaptionStaged ==
    mux.no_closed_caption =>
        /\ Len(mux.subtitles) = Len(SelectSeq(mux.given, LAMBDA s : s.not_cc))
        /\ \A q \in 1 .. Len(mux.subtitles) :
              \A r \in 1 .. Len(mux.subtitles[q].title) : mux.subtitles[q].title[r] # " (CC)"

\* C27, as claimed: a staged subtitle has the disposition 'forced' exactly when
\* it is not a closed caption; and with closed captions excluded none is staged
\* or passed on.
C27_ForcedIffNotClosedCaption ==
    MuxDone =>
        /\ Len(mux.subtitles) = Len(Kept)
        /\ \A q \in 1 .. Len(mux.subtitles) : Forced(q) <=> Kept[q].not_cc
        /\ NoClosedCaptionStaged

\* C27, amended: a staged subtitle has the disposition 'forced' exactly when it
\* is a closed caption (its title carries "(CC)"); and with closed captions
\* excluded none is staged or passed on (so none is forced).
C27_ForcedIffClosedCaption ==
    MuxDone =>
        /\ Len(mux.subtitles) = Len(Kept)
        /\ \A q \in 1 .. Len(mux.subtitles) : Forced(q) <=> ~Kept[q].not_cc
        /\ NoClosedCaptionStaged

\* A closed caption and a subtitle that is none are staged, in this order.
C27_Witness ==
    /\ MuxDone
    /\ Len(mux.subtitles) = 2
    /\ ~mux.given[1].not_cc
    /\ mux.given[2].not_cc
    /\ Forced(1)
    /\ ~Forced(2)

LastArg == mux.command_args[Len(mux.command_args)]

\* "./" put in front of the destination.
DotSlash(dst) == Path(FALSE, <<".">> \o dst.comps)

\* The destination has no parent or an empty parent.
NoDirectory(dst) == dst.comps = << >> \/ (~dst.root /\ Len(dst.comps) = 1)

\* C28, as claimed: the last argument is the destination with "./" in front
\* when the destination has no parent or an empty parent, and the destination
\* as given otherwise.
C28_DotSlashIffNoDirectory ==
    MuxDone => LastArg.path = IF NoDirectory(mux.dst) THEN DotSlash(mux.dst) ELSE mux.dst

\* C28, amended: the last argument is the destination with "./" in front when
\* the destination is relative and has at most one component (an empty parent,
\* or the empty path, which has no parent); the root directory, which has no
\* parent either, and every destination with a directory are passed as given.
C28_DotSlashIffBareRelative ==
    MuxDone =>
        /\ LastArg.text = ""
        /\ LastArg.path = IF ~mux.dst.root /\ Len(mux.dst.comps) <= 1
                          THEN DotSlash(mux.dst) ELSE mux.dst

\* A bare file name got the prefix.
C28_Witness ==
    /\ MuxDone
    /\ mux.dst = Path(FALSE, <<"out.mkv">>)
    /\ LastArg.path = Path(FALSE, <<".", "out.mkv">>)

\* download saw ffmpeg exit with success (and cancelled the token) and has
\* returned.
MuxSucceeded == pg.main = "done" /\ pg.exit = "success" /\ pg.cancelled

\* C29, as claimed: a line of the feed that is no frame count (the pattern does
\* not match it, or its digits are no u64) only stops the monitor: once the
\* monitor has read one, ffmpeg_progress has returned Ok, and download returns
\* Ok when ffmpeg exits with success.
C29_MalformedLineOnlyStopsParsing ==
    (pg.last \in {"malformed", "overflow"}) =>
        /\ pg.mon = "done"
        /\ pg.mon_ret = "Ok"
        /\ MuxSucceeded => (pg.ret = "Ok")

\* C30, as claimed: when ffmpeg has exited with success and download has
\* returned, the monitor has returned Ok and the progress bar (when there is
\* one) stands at total_frames, however the lines, the end of the feed and the
\* cancellation interleave. (Stated for feeds on whose lines the monitor does
\* not fail; those are the matter of C29.)
C30_SuccessEndsAtFullProgress ==
    (/\ MuxSucceeded
     /\ \A q \in 1 .. Len(pg.feed) : pg.feed[q].kind \in {"frame", "malformed"}) =>
        /\ pg.mon = "done"
        /\ pg.mon_ret = "Ok"
        /\ pg.progress.some => (pg.progress.v = pg.total_frames)

\* The group of an input file: videos 1, audios 2, subtitles 3, chapters 4.
InputGroup(path) ==
    LET name == path.comps[Len(path.comps)]
    IN  CASE name \in {"v1.mp4", "v2.mp4"} -> 1
          [] name \in {"a1.m4a", "a2.m4a"} -> 2
          [] name = "c.chapter" -> 4
          [] OTHER -> 3

\* The numbers that follow the flag on the command line, in their order.
NumbersAfter(flag) ==
    LET args == mux.command_args
        at == SelectSeq([q \in 1 .. Len(args) |-> q],
                        LAMBDA q : q > 1 /\ args[q - 1].text = flag)
    IN  [q \in 1 .. Len(at) |-> args[at[q]].n]

\* C39: on the finished command line the `-i` inputs come in the order videos,
\* audios, subtitles, chapter file; the subtitle inputs are the staged
\* subtitles in staging order when soft subtitles are used and none otherwise;
\* the inputs other than the chapter file are mapped by `-map 0`, `-map 1`, ...
\* once each; and a chapter file is the last input, with `-map_metadata` giving
\* its position (counted from 0) among the inputs.
C39_InputsAndMapsInOrder ==
    MuxDone =>
        LET files == InputFiles
            soft == ~mux.force_hardsub /\ extension(mux.dst) \in {"mkv", "mov", "mp4"}
            subs == SelectSeq(files, LAMBDA f : InputGroup(f) = 3)
            streams == SelectSeq(files, LAMBDA f : InputGroup(f) # 4)
            maps == NumbersAfter("-map")
            meta == NumbersAfter("-map_metadata")
        IN  /\ \A q \in 1 .. Len(files) - 1 : InputGroup(files[q]) <= InputGroup(files[q + 1])
            /\ \A q \in 1 .. Len(files) - 1 : files[q] # files[q + 1]
            /\ SelectSeq(files, LAMBDA f : InputGroup(f) = 1)
                   = [q \in 1 .. mux.videos |-> Path(TRUE, <<"tmp", <<"v1.mp4", "v2.mp4">>[q]>>)]
            /\ SelectSeq(files, LAMBDA f : InputGroup(f) = 2)
                   = [q \in 1 .. mux.videos |-> Path(TRUE, <<"tmp", <<"a1.m4a", "a2.m4a">>[q]>>)]
            /\ subs = IF soft THEN [q \in 1 .. Len(mux.subtitles) |-> mux.subtitles[q].path]
                      ELSE << >>
            /\ maps = [q \in 1 .. Len(streams) |-> q - 1]
            /\ IF mux.chapters
               THEN /\ InputGroup(files[Len(files)]) = 4
                    /\ meta = <<Len(files) - 1>>
               ELSE /\ Len(streams) = Len(files)
                    /\ meta = << >>

\* A chapter file behind staged subtitles that are not inputs.
C39_Witness ==
    /\ MuxDone
    /\ mux.chapters
    /\ mux.force_hardsub
    /\ Len(mux.subtitles) = 2
    /\ NumbersAfter("-map_metadata") = <<4>>

\* C40, as claimed: for the destination "-" the last argument of the command
\* line is "-" itself.
C40_StdoutSinkPassedThrough ==
    (MuxDone /\ mux.dst = Path(FALSE, <<"-">>)) => (LastArg.path = Path(FALSE, <<"-">>))

\* C31: download returns Ok only when ffmpeg has exited with success; and when
\* the wait of line 661 has yielded a status that is no success, the monitor
\* task has been aborted and download has returned an error whose message is
\* the text ffmpeg wrote to stderr (what is not UTF-8 in it shown as U+FFFD).
C31_FailsWithStderrOnNonZeroExit ==
    /\ (pg.ret = "Ok") => (pg.exit = "success" /\ pg.status = "success")
    /\ (pg.status = "failure") =>
           /\ pg.exit = "failure"
           /\ pg.aborted
           /\ ~pg.cancelled
           /\ pg.main = "done"
           /\ pg.ret = "Err"
           /\ pg.detail.of = "stderr"
           /\ pg.detail.text = from_utf8_lossy(pg.stderr)
           /\ (\A q \in 1 .. Len(pg.stderr) : pg.stderr[q] = "valid") =>
                  (pg.detail.text = pg.stderr)

\* ffmpeg failed after the monitor had read a line, the monitor was aborted in
\* its loop, and the error carries the stderr text.
C31_Witness ==
    /\ pg.status = "failure"
    /\ pg.read > 0
    /\ pg.mon_ret = "JoinError"
    /\ pg.stderr = <<"valid">>
    /\ pg.detail = ErrorOf("stderr", <<"valid">>)

\* The segments of which the sink holds bytes.
WrittenSegments == {sink[j] : j \in 1 .. Len(sink)}

\* C36: between the iterations of the consumer loop, and after it, as long as
\* no write_all has failed: every index the buffer holds is greater than the
\* cursor data_pos, the segments written to the sink are as many as the cursor
\* says (they are 0..data_pos-1), and no index is both written and held.
C36_CursorAndBuffer ==
    (result.kind # "Io") =>
        /\ \A p \in DOMAIN buf : p > data_pos /\ buf[p] = p
        /\ Cardinality(WrittenSegments) = data_pos
        /\ WrittenSegments = 0 .. (data_pos - 1)
        /\ WrittenSegments \cap DOMAIN buf = {}

\* An arrival has met a held segment: both are written, nothing is held, and
\* the loop goes on.
C36_Witness ==
    /\ cpc = "recv"
    /\ reordered
    /\ data_pos = 2
    /\ DOMAIN buf = {}
    /\ chan # << >>

\* C37: when every lane's download has returned Ok(()), then once the channel
\* has closed (the loop is left, the tasks are being joined or the buffer is
\* flushed) the buffer is empty and the cursor is the segment count, so the
\* flush has nothing to write; and "Download buffer is not empty" is never the
\* result.
C37_NothingLeftAtClose ==
    /\ ((\A l \in Lanes : lres[l] = OkResult) /\ cpc \in {"join", "flush"}) =>
           /\ DOMAIN buf = {}
           /\ data_pos = total_segments
           /\ Drained(data_pos, buf) = << >>
           /\ sink = Concat(UpTo(total_segments))
    /\ result.kind # "BufferNotEmpty"

\* The flush is reached after segments of three arrived out of order from two
\* lanes.
C37_Witness ==
    /\ cpc = "flush"
    /\ reordered
    /\ total_segments = MaxSegs
    /\ cpus = MaxLanes
    /\ \A l \in Lanes : lres[l] = OkResult

\* C38: under fair scheduling of the lanes and the consumer, download_segments
\* returns (Ok or Err) for every segment count, every number of lanes and every
\* pattern of failing requests and decrypts.
C38_Terminates == <>(Returned /\ result # NoResult)

\* download_segments has returned an error after a lane used up its retries
\* while another lane had delivered.
C38_Witness ==
    /\ Returned
    /\ result.kind = "MaxRetry"
    /\ cpus >= 2
    /\ data_pos >= 1

\* C34: of every call of download_font that has returned: for a name the
\* catalog does not have it returned None and made no request and no write;
\* for a catalog name whose file was in the cache it made no request and no
\* write and, unless it failed, returned the file flagged cached; for a catalog
\* name whose file was not in the cache it returned, unless it failed, the file
\* flagged uncached after one request and with the file in the cache; and a
\* call for a name an earlier call has returned a file for makes no request and
\* returns, unless it fails, the file flagged cached.
C34_FontResolution ==
    /\ \A q \in 1 .. Len(font.log) :
         LET e == font.log[q]
             i == find(e.name)
             untouched == e.after = e.before
         IN  /\ (i = 0) => (e.ret = FontRet("None", "", FALSE) /\ untouched)
             /\ (i # 0 /\ FONTS[i][2] \in e.before.cache) =>
                    /\ untouched
                    /\ e.ret.kind # "Err" => (e.ret = FontRet("Some", FONTS[i][2], TRUE))
             /\ (i # 0 /\ FONTS[i][2] \notin e.before.cache /\ e.ret.kind # "Err") =>
                    /\ e.ret = FontRet("Some", FONTS[i][2], FALSE)
                    /\ e.after.fetches = e.before.fetches + 1
                    /\ e.after.writes = e.before.writes + 1
                    /\ e.after.cache = e.before.cache \cup {FONTS[i][2]}
    /\ \A q \in 1 .. Len(font.log) : \A r \in (q + 1) .. Len(font.log) :
         (font.log[q].ret.kind = "Some" /\ font.log[r].name = font.log[q].name) =>
             /\ font.log[r].after.fetches = font.log[r].before.fetches
             /\ font.log[r].ret.kind # "Err" =>
                    (font.log[r].ret = FontRet("Some", font.log[q].ret.file, TRUE))

\* A font was fetched and written, and asked for again it came from the cache.
C34_Witness ==
    /\ Len(font.log) = 2
    /\ font.log[1].name = "Arial"
    /\ font.log[1].ret = FontRet("Some", "arial.woff2", FALSE)
    /\ font.log[2].name = "Arial"
    /\ font.log[2].ret = FontRet("Some", "arial.woff2", TRUE)
    /\ font.fetches = 1

\* C33: when pre_check or execute has returned an error and the process has
\* ended, its status is 1, the first record written with error! shows that
\* error, and execute was not called after a failed pre_check; the process ends
\* with status 0 only when both returned Ok.
C33_FatalErrorReportedAndNonZero ==
    /\ (exe.pc = "ended" /\ (exe.pre = "Err" \/ exe.run.kind # "Ok")) =>
           /\ exe.status = 1
           /\ Len(exe.log) >= 1
           /\ exe.log[1].err = (IF exe.pre = "Err" THEN "pre_check" ELSE "execute")
           /\ \A q \in 1 .. Len(exe.log) :
                  (exe.pre = "Err") => (exe.log[q].err # "execute")
    /\ (exe.status = 0) => (exe.pre = "Ok" /\ exe.run.kind = "Ok" /\ exe.log = << >>)

\* execute failed with a rate-limit error after a good pre_check: two records,
\* the error first, and status 1.
C33_Witness ==
    /\ exe.pc = "ended"
    /\ exe.pre = "Ok"
    /\ exe.run = [kind |-> "Request", rate_limit |-> TRUE]
    /\ Len(exe.log) = 2
    /\ exe.log[1].err = "execute"
    /\ exe.status = 1

\* C32, as claimed: once the ctrl-c handler has ended the process, the status
\* is not 0 and the temp directory holds no file whose name starts with
\* ".crunchy-cli_", however the handler and the command interleave.
C32_InterruptLeavesNoTempFile ==
    (intr.handler = "done") =>
        /\ intr.status # 0
        /\ \A f \in intr.files : ~StartsWithPrefix(f)

====
